---- MODULE Spec2Model ----
(***************************************************************************)
(* Failover event state machine of truenas-middleware                      *)
(* (plugins/failover_/event.py): event ingress, validation, the MASTER and *)
(* BACKUP transition jobs, and the bounded pool export of the BACKUP job.  *)
(***************************************************************************)
EXTENDS Integers, Sequences, FiniteSets, TLC

(* ------------------------------------------------------------------ *)
(* Bounds of the model                                                 *)
(* ------------------------------------------------------------------ *)
\* number of event() calls made in one behaviour of Spec
MaxEvents == 2
\* largest number of zpools in a behaviour of Spec
RacePools == 1
\* largest number of zpools in a behaviour of SpecOne (one event() call)
MaxPools == 2

(* ------------------------------------------------------------------ *)
(* Program constants                                                   *)
(* ------------------------------------------------------------------ *)
\* FailoverEventsService.ZPOOL_EXPORT_TIMEOUT (seconds)
ZPOOL_EXPORT_TIMEOUT == 4

\* exit codes of fenced: 0 ok, 1 key registration, 2 running on remote,
\* 3 reservation of >= 10% of the disks failed, 5 fatal, 4 stands for "any other"
FencedCodes == {0, 1, 2, 3, 4, 5}

EventKinds == {"MASTER", "BACKUP", "forcetakeover"}

(* ------------------------------------------------------------------ *)
(* Interface names are character sequences: the non-critical interface  *)
(* check of _event is Python's `i in ifname` on two strings.            *)
(* ------------------------------------------------------------------ *)
Name_ens1 == <<"e", "1">>
Name_ens10 == <<"e", "1", "0">>
Name_ens2 == <<"e", "2">>

\* interface.query: id, failover_critical, failover_group
Interfaces ==
    { [id |-> Name_ens10, failover_critical |-> TRUE, failover_group |-> 1],
      [id |-> Name_ens2, failover_critical |-> TRUE, failover_group |-> 1],
      [id |-> Name_ens1, failover_critical |-> FALSE, failover_group |-> 0] }

Ifnames == {i.id : i \in Interfaces}

\* Python `a in b` for two strings: a is a contiguous part of b
StrIn(a, b) ==
    \E k \in 0..(Len(b) - Len(a)) :
        \A n \in 1..Len(a) : b[k + n] = a[n]

\* generate_failover_data: data['non_crit_interfaces']
NonCritInterfaces == {i.id : i \in {x \in Interfaces : x.failover_critical # TRUE}}

\* _event: ignore = [i for i in fobj['non_crit_interfaces'] if i in ifname]
IgnoreNonCritical(non_crit, ifname) == {i \in non_crit : StrIn(i, ifname)}

\* variant: the statuses of the snapshot are tested instead of the fresh query
NeedsImported_Snapshot(cur, volumes) ==
    \E n \in 1..Len(volumes) : volumes[n] = "OFFLINE"

\* _event: needs_imported, from a fresh pool.query restricted to the names of
\* the snapshot's volumes
NeedsImported(cur, volumes) ==
    \E n \in 1..Len(cur) : n \in DOMAIN volumes /\ cur[n] = "OFFLINE"

\* variant: only the key registration failure is fatal
FencedFailed_OnlyKeys(rc) == rc = 1

\* vrrp_master: `if fenced_error != 0`
FencedFailed(rc) == rc # 0

\* variant: the lock name depends on the event the job was started for
JobLock_PerEvent(method, event) ==
    IF event = "forcetakeover" THEN "vrrp_forcetakeover"
    ELSE IF method = "vrrp_master" THEN "vrrp_master" ELSE "vrrp_backup"

\* the lock of the @job decorator of each transition method
JobLock(method, event) ==
    IF method = "vrrp_master" THEN "vrrp_master" ELSE "vrrp_backup"

\* _event: which job method an accepted event starts
MethodOf(event) ==
    IF event \in {"MASTER", "forcetakeover"} THEN "vrrp_master" ELSE "vrrp_backup"

(* ------------------------------------------------------------------ *)
(* State                                                               *)
(* ------------------------------------------------------------------ *)
VARIABLES
    config,            \* failover.config: [disabled, master]
    pools,             \* pool.query: status of pool 1..Len(pools)
    ev,                \* the event() calls: position and locals of each
    jobs,              \* core.get_jobs: every vrrp_master / vrrp_backup job
    fenced,            \* the fenced daemon holds the disk reservation here
    firewall,          \* "accept" or "drop"
    cachefile,         \* mode set by failover.zpool.cachefile.setup
    sentinel,          \* WATCHDOG_ALERT_FILE exists
    FAILOVER_RESULT,   \* FailoverEventsService.FAILOVER_RESULT
    reboots,           \* writes of 'b' to /proc/sysrq-trigger
    limit,             \* event() calls the environment makes in this behaviour
    licensed,          \* failover.licensed
    status,            \* failover.status
    key_cache,         \* the local cache entry failover_encryption_keys
    peer_keys,         \* the cache entry failover_encryption_keys of the peer
    ENCRYPTION_CACHE_LOCK,  \* 0 when free, else the call that holds it
    kops,              \* the calls of the key methods: position and locals
    alerts,            \* the one-shot alerts that exist
    last_sync,         \* how the latest sync_keys_to_remote_node attempt ended
    LAST_DISABLED_REASONS,  \* <<>> for None, else <<the set>>
    rcall,             \* the failover.disabled.reasons call: position and locals
    sent_events,       \* failover.disabled.reasons CHANGED events sent
    node,              \* failover.node of the node the calls are made on
    datastore,         \* the system.failover row: FailoverConfig
    ucall,             \* the failover.update calls: the latest and their number
    force_master,      \* the failover.force_master calls made, in order
    srv_enable,        \* the services of services_services with srv_enable set
    rs,                \* the restart_services calls: the latest and the earlier ones
    sp                 \* the sync_to_peer call

eventVars == <<config, pools, ev, jobs, fenced, firewall, cachefile, sentinel,
               FAILOVER_RESULT, reboots, limit>>

keyVars == <<licensed, status, key_cache, peer_keys, ENCRYPTION_CACHE_LOCK,
             kops, alerts, last_sync>>

reasonVars == <<LAST_DISABLED_REASONS, rcall, sent_events>>

updateVars == <<node, datastore, ucall, force_master>>

\* what the actions of each part leave alone
restartVars == <<srv_enable, rs>>

peerVars == <<sp>>

nonEventVars == <<keyVars, reasonVars, updateVars, restartVars, peerVars>>
nonKeyVars == <<eventVars, reasonVars, updateVars, restartVars, peerVars>>
nonReasonVars == <<eventVars, keyVars, updateVars, restartVars, peerVars>>
nonUpdateVars == <<eventVars, keyVars, reasonVars, restartVars, peerVars>>
nonRestartVars == <<eventVars, keyVars, reasonVars, updateVars, peerVars>>
nonPeerVars == <<eventVars, keyVars, reasonVars, updateVars, restartVars>>

vars == <<config, pools, ev, jobs, fenced, firewall, cachefile, sentinel,
          FAILOVER_RESULT, reboots, limit, licensed, status, key_cache,
          peer_keys, ENCRYPTION_CACHE_LOCK, kops, alerts, last_sync,
          LAST_DISABLED_REASONS, rcall, sent_events,
          node, datastore, ucall, force_master, srv_enable, rs, sp>>

Procs == 1..MaxEvents

PoolStates == {"ONLINE", "OFFLINE"}

\* all pool lists of at most n pools
PoolLists(n) == UNION {[1..k -> PoolStates] : k \in 0..n}

NoFobj == [disabled |-> FALSE, master |-> FALSE, volumes |-> <<>>]

\* one call made through run_call / middleware.call_sync, with the pool it is about
Call(op) == [op |-> op, arg |-> 0]
CallOn(op, n) == [op |-> op, arg |-> n]

Ops(calls) == {calls[n].op : n \in 1..Len(calls)}

\* generate_failover_data: the snapshot taken at the start of _event
generate_failover_data == 
    [disabled |-> config.disabled, master |-> config.master, volumes |-> pools]

\* a job as created by the job runner for a @job method
NewJob(method, fobj, ifname, event, state) ==
    [method |-> method, fobj |-> fobj, ifname |-> ifname, event |-> event,
     state |-> state,
     pc |-> IF method = "vrrp_master" THEN "elect" ELSE "begin",
     progress |-> "none", result |-> "none", exc |-> "none",
     calls |-> <<>>, fenced_error |-> -1, failed |-> <<>>, idx |-> 1,
     thr |-> "none", thr_idx |-> 1, thr_starts |-> 0,
     elapsed |-> 0, wake |-> 0, alive |-> "unknown"]

JobIds == 1..Len(jobs)

Running(j) == jobs[j].state = "RUNNING"

\* variant: the filter names vrrp_master only
current_events_MasterOnly ==
    {j \in JobIds : jobs[j].method = "vrrp_master" /\ Running(j)}

\* core.get_jobs with the filter of validate: the RUNNING transition jobs
current_events ==
    {j \in JobIds : jobs[j].method \in {"vrrp_master", "vrrp_backup"} /\ Running(j)}

\* job runner: a lock name is held by the RUNNING jobs created with it
LockFree(lock, js) ==
    \A k \in 1..Len(js) :
        ~(js[k].state = "RUNNING" /\ JobLock(js[k].method, js[k].event) = lock)

Alive == reboots = 0

InitWith(events, npools) ==
    /\ limit = events
    /\ config \in [disabled : BOOLEAN, master : BOOLEAN]
    /\ pools \in PoolLists(npools)
    /\ ev = [p \in Procs |->
                [pc |-> "idle", ifname |-> <<>>, event |-> "none", fobj |-> NoFobj,
                 ignored |-> "no", job |-> 0, refreshes |-> 0]]
    /\ jobs = <<>>
    /\ fenced = FALSE
    /\ firewall = "drop"
    /\ cachefile = "none"
    /\ sentinel = FALSE
    /\ FAILOVER_RESULT = "None"
    /\ reboots = 0

(* ------------------------------------------------------------------ *)
(* event(ifname, event) and _event                                     *)
(* ------------------------------------------------------------------ *)
\* event() is entered and _event takes its snapshot
Event(p, ifname, event) ==
    /\ Alive
    /\ ev[p].pc = "idle"
    /\ p <= limit
    /\ \A q \in Procs : q < p => ev[q].pc # "idle"
    /\ ev' = [ev EXCEPT ![p].pc = "checks", ![p].ifname = ifname,
                        ![p].event = event, ![p].fobj = generate_failover_data]
    /\ UNCHANGED <<config, pools, jobs, fenced, firewall, cachefile, sentinel,
                   FAILOVER_RESULT, reboots, limit, nonEventVars>>

\* variant: a disabled node that is the configured master goes on
EventChecksIgnore_MasterGoesOn(fobj, ifname, event, cur) ==
    IF event = "forcetakeover" THEN "no"
    ELSE IF fobj.disabled /\ ~fobj.master THEN "disabled_backup"
    ELSE IF IgnoreNonCritical(NonCritInterfaces, ifname) # {} THEN "non_critical"
    ELSE IF event = "MASTER" /\ ~NeedsImported(cur, fobj.volumes) THEN "already_imported"
    ELSE "no"

\* variant: forcetakeover goes through the checks of the other events
EventChecksIgnore_ForcedChecked(fobj, ifname, event, cur) ==
    IF fobj.disabled /\ ~fobj.master THEN "disabled_backup"
    ELSE IF fobj.disabled THEN "disabled"
    ELSE IF IgnoreNonCritical(NonCritInterfaces, ifname) # {} THEN "non_critical"
    ELSE IF event = "MASTER" /\ ~NeedsImported(cur, fobj.volumes) THEN "already_imported"
    ELSE "no"

\* the reason for which the checks of _event raise IgnoreFailoverEvent, or "no"
EventChecksIgnore(fobj, ifname, event, cur) ==
    IF event = "forcetakeover" THEN "no"
    ELSE IF fobj.disabled /\ ~fobj.master THEN "disabled_backup"
    ELSE IF fobj.disabled THEN "disabled"
    ELSE IF IgnoreNonCritical(NonCritInterfaces, ifname) # {} THEN "non_critical"
    ELSE IF event = "MASTER" /\ ~NeedsImported(cur, fobj.volumes) THEN "already_imported"
    ELSE "no"

\* an IgnoreFailoverEvent leaves event() with refresh = False
Ignore(p, why) ==
    ev' = [ev EXCEPT ![p].pc = "done", ![p].ignored = why]

\* _event up to the call of validate
EventChecks(p) ==
    /\ Alive
    /\ ev[p].pc = "checks"
    /\ LET why == EventChecksIgnore(ev[p].fobj, ev[p].ifname, ev[p].event, pools)
       IN IF why # "no" THEN Ignore(p, why)
          ELSE ev' = [ev EXCEPT ![p].pc = "validate"]
    /\ UNCHANGED <<config, pools, jobs, fenced, firewall, cachefile, sentinel,
                   FAILOVER_RESULT, reboots, limit, nonEventVars>>

\* validate: any RUNNING transition job makes the event ignored
validate(p) ==
    /\ Alive
    /\ ev[p].pc = "validate"
    /\ IF current_events # {} THEN Ignore(p, "in_flight")
       ELSE ev' = [ev EXCEPT ![p].pc = "start_job"]
    /\ UNCHANGED <<config, pools, jobs, fenced, firewall, cachefile, sentinel,
                   FAILOVER_RESULT, reboots, limit, nonEventVars>>

\* _event: run_call of vrrp_master or vrrp_backup creates the job and returns it;
\* the job runs at once when its lock is free and waits for it otherwise
StartJob(p) ==
    /\ Alive
    /\ ev[p].pc = "start_job"
    /\ LET m == MethodOf(ev[p].event)
           st == IF LockFree(JobLock(m, ev[p].event), jobs) THEN "RUNNING" ELSE "WAITING"
       IN jobs' = Append(jobs, NewJob(m, ev[p].fobj, ev[p].ifname, ev[p].event, st))
    /\ ev' = [ev EXCEPT ![p].pc = "refresh", ![p].job = Len(jobs) + 1]
    /\ UNCHANGED <<config, pools, fenced, firewall, cachefile, sentinel,
                   FAILOVER_RESULT, reboots, limit, nonEventVars>>

\* event(): the finally clause, refresh still True
StatusRefresh(p) ==
    /\ Alive
    /\ ev[p].pc = "refresh"
    /\ ev' = [ev EXCEPT ![p].pc = "done", ![p].refreshes = @ + 1]
    /\ UNCHANGED <<config, pools, jobs, fenced, firewall, cachefile, sentinel,
                   FAILOVER_RESULT, reboots, limit, nonEventVars>>

\* job runner: when a job ends and releases its lock, the first job waiting
\* for that lock starts
Release(js) ==
    LET waiting == {k \in 1..Len(js) :
                        /\ js[k].state = "WAITING"
                        /\ LockFree(JobLock(js[k].method, js[k].event), js)}
    IN IF waiting = {} THEN js
       ELSE LET first == CHOOSE k \in waiting : \A o \in waiting : k <= o
            IN [js EXCEPT ![first].state = "RUNNING"]

(* ------------------------------------------------------------------ *)
(* vrrp_master                                                         *)
(* ------------------------------------------------------------------ *)
\* the errors of the calls whose failure vrrp_master only logs: drawn when a
\* single event is followed, left out when events race
BestEffortErrors == IF limit = 1 THEN BOOLEAN ELSE {FALSE}

\* vrrp_master: disk.sed_unlock_all in its try block; an error is logged
SedUnlock(error) ==
    <<Call("disk.sed_unlock_all")>>
    \o (IF error THEN <<Call("logger.error.sed_unlock")>> ELSE <<>>)

\* the job ends by raising exc, after setting its progress description
Raise(j, description, exc, calls) ==
    [jobs[j] EXCEPT !.state = "FAILED", !.pc = "done", !.progress = description,
                    !.exc = exc, !.calls = calls]

\* variant: fenced is stopped before the failover group is checked
CheckGroup_AfterStop(calls) ==
    calls \o <<Call("failover.fenced.stop"), Call("failover.vip.check_failover_group")>>

\* vrrp_master, vrrp_backup: the failover.vip.check_failover_group call
CheckGroup(calls) == Append(calls, Call("failover.vip.check_failover_group"))

\* variant: fenced is started again when the first start is over
StartFenced_Retry(force) ==
    <<Call("failover.fenced.stop"),
      CallOn("failover.fenced.start", IF force THEN 1 ELSE 0),
      CallOn("failover.fenced.start", IF force THEN 1 ELSE 0)>>

\* vrrp_master: fenced.stop, then fenced.start; the argument of the start is
\* 1 for fenced.start(True) and 0 for fenced.start()
StartFenced(force) ==
    <<Call("failover.fenced.stop"),
      CallOn("failover.fenced.start", IF force THEN 1 ELSE 0)>>

\* variant: the early return is never taken
NoVolumes_Never(volumes) == FALSE

\* vrrp_master: `if not fobj['volumes']`
NoVolumes(volumes) == volumes = <<>>

\* vrrp_master from its start to the IMPORTING progress: the failover group
\* check, fenced, the early return without zpools, SED unlock, cachefile setup
vrrp_master_elect(j) ==
    /\ Alive
    /\ Running(j) /\ jobs[j].method = "vrrp_master" /\ jobs[j].pc = "elect"
    /\ \E still_backup \in BOOLEAN, rc \in FencedCodes, sed_error \in BestEffortErrors :
        LET me == jobs[j]
            forced == me.event = "forcetakeover"
            checked == IF forced THEN me.calls ELSE CheckGroup(me.calls)
            started == checked \o StartFenced(forced)
        IN IF ~forced /\ still_backup
           THEN /\ jobs' = Release([jobs EXCEPT ![j] =
                                    Raise(j, "IGNORED", "IgnoreFailoverEvent", checked)])
                /\ UNCHANGED <<fenced, cachefile, FAILOVER_RESULT>>
           ELSE IF FencedFailed(rc)
           THEN /\ jobs' = Release([jobs EXCEPT ![j] =
                              [Raise(j, "ERROR", "FencedError", started)
                                  EXCEPT !.fenced_error = rc]])
                /\ fenced' = FALSE
                /\ UNCHANGED <<cachefile, FAILOVER_RESULT>>
           ELSE IF NoVolumes(me.fobj.volumes)
           THEN /\ jobs' = Release([jobs EXCEPT ![j].state = "SUCCESS", ![j].pc = "done",
                                        ![j].progress = "ELECTING",
                                        ![j].fenced_error = rc,
                                        ![j].result = "INFO", ![j].calls = started])
                /\ fenced' = TRUE
                /\ FAILOVER_RESULT' = "INFO"
                /\ UNCHANGED cachefile
           ELSE /\ jobs' = [jobs EXCEPT ![j].pc = "import", ![j].progress = "IMPORTING",
                                        ![j].fenced_error = rc,
                                        ![j].calls = started \o SedUnlock(sed_error) \o
                                            <<Call("failover.zpool.cachefile.setup")>>]
                /\ fenced' = TRUE
                /\ cachefile' = "MASTER"
                /\ UNCHANGED FAILOVER_RESULT
    /\ UNCHANGED <<config, pools, ev, firewall, sentinel, reboots, limit, nonEventVars>>

\* what zfs.pool.import_pool does for one pool: with the cachefile it succeeds,
\* fails as not found (NOENT / ENOENT) or fails otherwise; without it, it
\* succeeds or fails
ImportOutcomes == {"ok", "noent_ok", "noent_fail", "error"}

\* the job of failover.unlock_zfs_datasets: it has no error and no dataset
\* failed to unlock, it has an error, or its result lists failed datasets
UnlockOutcomes == {"ok", "error", "failed"}

UnlockResults == IF limit = 1 THEN UnlockOutcomes ELSE {"ok"}

\* the unlock of the datasets of an imported zpool, with what is logged
UnlockCalls(n, unlock) ==
    <<CallOn("failover.unlock_zfs_datasets", n)>>
    \o (CASE unlock = "ok" -> <<>>
          [] unlock = "error" -> <<CallOn("logger.error.unlock_job", n)>>
          [] unlock = "failed" -> <<CallOn("logger.error.unlock_failed", n)>>)

\* variant: the import is tried without the cachefile after any error
RetryCalls_AnyError(n, outcome, update_error) ==
    CASE outcome = "ok" -> <<>>
      [] outcome \in {"noent_ok", "error"} ->
            <<CallOn("zfs.pool.import_pool.nocachefile", n), CallOn("zfs.pool.update", n)>>
      [] outcome = "noent_fail" -> <<CallOn("zfs.pool.import_pool.nocachefile", n)>>

\* the `if try_again` block: the import without the cachefile and, when it
\* succeeds, zfs.pool.update of the cachefile property, whose error is logged
RetryCalls(n, outcome, update_error) ==
    CASE outcome \in {"ok", "error"} -> <<>>
      [] outcome = "noent_ok" ->
            <<CallOn("zfs.pool.import_pool.nocachefile", n), CallOn("zfs.pool.update", n)>>
            \o (IF update_error THEN <<CallOn("logger.warning.cachefile_property", n)>>
                ELSE <<>>)
      [] outcome = "noent_fail" -> <<CallOn("zfs.pool.import_pool.nocachefile", n)>>

\* the import with the cachefile; a not-found error (NOENT / ENOENT) is
\* logged as 'Failed importing %r using cachefile so trying without it.'
FirstImport(n, outcome) ==
    <<CallOn("zfs.pool.import_pool", n)>>
    \o (IF outcome \in {"noent_ok", "noent_fail"}
        THEN <<CallOn("logger.warning.stale_cachefile", n)>> ELSE <<>>)

\* the calls of one iteration of the import loop
ImportCalls(n, outcome, update_error, unlock) ==
    FirstImport(n, outcome)
    \o RetryCalls(n, outcome, update_error)
    \o (IF outcome \in {"ok", "noent_ok"} THEN UnlockCalls(n, unlock) ELSE <<>>)

\* the iteration appends the volume to `failed`
ImportFailed(outcome) == outcome \in {"noent_fail", "error"}

\* variant: a zpool whose datasets did not unlock counts as failed
FailedAfter_UnlockCounts(failed, n, outcome, unlock) ==
    IF ImportFailed(outcome) \/ unlock # "ok" THEN Append(failed, n) ELSE failed

\* `failed` after the iteration on zpool n: the volume is appended in the two
\* except branches of the imports, and nowhere after the unlock
FailedAfter(failed, n, outcome, unlock) ==
    IF ImportFailed(outcome) THEN Append(failed, n) ELSE failed

\* vrrp_master: one iteration of `for vol in fobj['volumes']`
vrrp_master_import(j) ==
    /\ Alive
    /\ Running(j) /\ jobs[j].method = "vrrp_master" /\ jobs[j].pc = "import"
    /\ jobs[j].idx <= Len(jobs[j].fobj.volumes)
    /\ \E outcome \in ImportOutcomes, update_error \in BestEffortErrors,
          unlock \in UnlockResults :
        LET n == jobs[j].idx
        IN /\ jobs' = [jobs EXCEPT ![j].idx = n + 1,
                                   ![j].calls = @ \o ImportCalls(n, outcome, update_error, unlock),
                                   ![j].failed = FailedAfter(@, n, outcome, unlock)]
           /\ pools' = IF ImportFailed(outcome) THEN pools
                       ELSE [pools EXCEPT ![n] = "ONLINE"]
    /\ UNCHANGED <<config, ev, fenced, firewall, cachefile, sentinel,
                   FAILOVER_RESULT, reboots, limit, nonEventVars>>

\* variant: the transition aborts as soon as one zpool failed
AllFailed_Any(failed, volumes) == Len(failed) > 0

\* variant: the comparison can never be true for a non-empty pool list
AllFailed_Never(failed, volumes) == Len(failed) > Len(volumes)

\* vrrp_master: `if len(failed) == len(fobj['volumes'])`
AllFailed(failed, volumes) == Len(failed) = Len(volumes)

\* variant: the traffic is allowed before the services are restarted
CriticalCalls_AcceptFirst ==
    <<Call("failover.firewall.accept_all"),
      Call("failover.status_refresh"), Call("etc.generate.rc"),
      Call("systemdataset.setup"), Call("etc.generate.ssl"),
      Call("service.restart.http"), Call("failover.events.restart_services.critical")>>

\* the calls from the status refresh to the firewall accept
CriticalCalls ==
    <<Call("failover.status_refresh"), Call("etc.generate.rc"),
      Call("systemdataset.setup"), Call("etc.generate.ssl"),
      Call("service.restart.http"), Call("failover.events.restart_services.critical"),
      Call("failover.firewall.accept_all")>>

\* the calls after "Critical portion of failover is now complete"
BackgroundCalls(kmip) ==
    <<Call("etc.generate.cron"), Call("disk.sync_all"),
      Call("failover.events.background"),
      Call("failover.events.restart_services"), Call("vm.start_on_boot"),
      Call("truecommand.start_truecommand_service"),
      Call("alert.block_failover_alerts"), Call("alert.initialize"),
      Call("kmip.config")>>
    \o (IF kmip THEN <<Call("kmip.initialize_keys")>> ELSE <<>>)

\* vrrp_master after the import loop: all zpools failed, or the critical
\* portion up to the firewall accept
vrrp_master_critical(j) ==
    /\ Alive
    /\ Running(j) /\ jobs[j].method = "vrrp_master" /\ jobs[j].pc = "import"
    /\ jobs[j].idx > Len(jobs[j].fobj.volumes)
    /\ IF AllFailed(jobs[j].failed, jobs[j].fobj.volumes)
       THEN /\ jobs' = Release([jobs EXCEPT ![j] =
                          Raise(j, "ERROR", "AllZpoolsFailedToImport", jobs[j].calls)])
            /\ UNCHANGED firewall
       ELSE /\ jobs' = [jobs EXCEPT ![j].pc = "background",
                                    ![j].calls = @ \o CriticalCalls]
            /\ firewall' = "accept"
    /\ UNCHANGED <<config, pools, ev, fenced, cachefile, sentinel,
                   FAILOVER_RESULT, reboots, limit, nonEventVars>>

\* vrrp_master from "Regenerating cron" to the return of FAILOVER_RESULT
vrrp_master_background(j) ==
    /\ Alive
    /\ Running(j) /\ jobs[j].method = "vrrp_master" /\ jobs[j].pc = "background"
    /\ \E kmip \in BOOLEAN :
        jobs' = Release([jobs EXCEPT ![j].state = "SUCCESS", ![j].pc = "done",
                             ![j].progress = "SUCCESS", ![j].result = "SUCCESS",
                             ![j].calls = @ \o BackgroundCalls(kmip)])
    /\ FAILOVER_RESULT' = "SUCCESS"
    /\ UNCHANGED <<config, pools, ev, fenced, firewall, cachefile, sentinel, reboots, limit, nonEventVars>>

(* ------------------------------------------------------------------ *)
(* vrrp_backup and the export thread                                   *)
(* ------------------------------------------------------------------ *)
\* `with contextlib.suppress(Exception)` around op: an error is swallowed
Suppressed(op, error) ==
    <<Call(op)>> \o (IF error THEN <<Call("suppress." \o op)>> ELSE <<>>)

\* variant: the export thread is started before the traffic is blocked
DemoteCalls_ExportFirst(error, write_error) ==
    <<Call("failover.fenced.stop"), Call("export_thread.start"),
      Call("failover.firewall.drop_all")>>
    \o (IF error THEN <<Call("logger.error.drop_all")>> ELSE <<>>)
    \o <<Call("service.restart.keepalived")>>
    \o Suppressed("write.WATCHDOG_ALERT_FILE", write_error)
    \o <<Call("failover.zpool.cachefile.setup")>>

\* the calls of vrrp_backup from fenced.stop to the start of the export
\* thread; an error of the drop_all job is logged, an error of the write of
\* the sentinel file is suppressed
DemoteCalls(error, write_error) ==
    <<Call("failover.fenced.stop"), Call("failover.firewall.drop_all")>>
    \o (IF error THEN <<Call("logger.error.drop_all")>> ELSE <<>>)
    \o <<Call("service.restart.keepalived")>>
    \o Suppressed("write.WATCHDOG_ALERT_FILE", write_error)
    \o <<Call("failover.zpool.cachefile.setup"), Call("export_thread.start")>>

\* variant: the sentinel file is left in place when the transition ends
UnlinkSentinel_Kept(exists, error) == exists

\* os.unlink of WATCHDOG_ALERT_FILE: the file is gone unless it raised
UnlinkSentinel(exists, error) == IF error THEN exists ELSE FALSE

\* the write of WATCHDOG_ALERT_FILE: the file exists unless the write raised
WriteSentinel(exists, error) == IF error THEN exists ELSE TRUE

\* failover.firewall.drop_all, waited for with wait_sync: the traffic is
\* blocked unless the job ended with an error, which vrrp_backup only logs
DropAll(fw, error) == IF error THEN fw ELSE "drop"

\* the calls of vrrp_backup after the export thread was joined in time
StandbyCalls(ssh, unlink_error) ==
    Suppressed("unlink.WATCHDOG_ALERT_FILE", unlink_error)
    \o <<Call("failover.status_refresh"),
      Call("systemdataset.setup"), Call("service.restart.syslogd"),
      Call("etc.generate.cron"), Call("service.stop.smartd"),
      Call("service.stop.rrdcached"), Call("truecommand.stop_truecommand_service"),
      Call("datastore.query.ssh")>>
    \o (IF ssh THEN <<Call("service.restart.ssh")>> ELSE <<>>)
    \o <<Call("failover.call_remote.sync_keys_to_remote_node")>>

\* vrrp_backup from its start to export_thread.start()
vrrp_backup_begin(j) ==
    /\ Alive
    /\ Running(j) /\ jobs[j].method = "vrrp_backup" /\ jobs[j].pc = "begin"
    /\ \E still_master \in BOOLEAN, drop_error \in BOOLEAN,
          write_error \in BestEffortErrors :
        LET checked == CheckGroup(jobs[j].calls)
        IN IF still_master
           THEN /\ jobs' = Release([jobs EXCEPT ![j] =
                                    Raise(j, "IGNORED", "IgnoreFailoverEvent", checked)])
                /\ UNCHANGED <<fenced, firewall, sentinel, cachefile>>
           ELSE /\ jobs' = [jobs EXCEPT ![j].pc = "join",
                                        ![j].calls = checked \o DemoteCalls(drop_error, write_error),
                                        ![j].thr = "running", ![j].thr_idx = 1,
                                        ![j].thr_starts = @ + 1, ![j].elapsed = 0]
                /\ fenced' = FALSE
                /\ firewall' = DropAll(firewall, drop_error)
                /\ sentinel' = WriteSentinel(sentinel, write_error)
                /\ cachefile' = "BACKUP"
    /\ UNCHANGED <<config, pools, ev, FAILOVER_RESULT, reboots, limit, nonEventVars>>

\* variant: the sleep ends before the join deadline
ExportErrorSleep_Short == ZPOOL_EXPORT_TIMEOUT - 1

\* _export_zpools: how long the thread sleeps after an export raised
ExportErrorSleep == ZPOOL_EXPORT_TIMEOUT + 1

\* _export_zpools: one iteration of `for vol in volumes`; the status tested is
\* the one of the snapshot. An export that raises leaves the loop for the
\* except clause, which sleeps.
_export_zpools(j) ==
    /\ Alive
    /\ Running(j) /\ jobs[j].thr = "running"
    /\ jobs[j].thr_idx <= Len(jobs[j].fobj.volumes)
    /\ LET n == jobs[j].thr_idx
       IN IF jobs[j].fobj.volumes[n] # "OFFLINE"
          THEN \E ok \in BOOLEAN :
                IF ok
                THEN /\ jobs' = [jobs EXCEPT ![j].thr_idx = n + 1,
                                    ![j].calls = Append(@, CallOn("zfs.pool.export", n))]
                     /\ pools' = [pools EXCEPT ![n] = "OFFLINE"]
                ELSE /\ jobs' = [jobs EXCEPT ![j].thr = "sleeping",
                                    ![j].wake = jobs[j].elapsed + ExportErrorSleep,
                                    ![j].calls = @ \o <<CallOn("zfs.pool.export", n),
                                                       CallOn("logger.error.export", n)>>]
                     /\ UNCHANGED pools
          ELSE /\ jobs' = [jobs EXCEPT ![j].thr_idx = n + 1]
               /\ UNCHANGED pools
    /\ UNCHANGED <<config, ev, fenced, firewall, cachefile, sentinel,
                   FAILOVER_RESULT, reboots, limit, nonEventVars>>

\* the export thread ends: the loop is over, or the sleep of the except clause is
export_thread_exit(j) ==
    /\ Alive
    /\ Running(j)
    /\ \/ jobs[j].thr = "running" /\ jobs[j].thr_idx > Len(jobs[j].fobj.volumes)
       \/ jobs[j].thr = "sleeping" /\ jobs[j].elapsed >= jobs[j].wake
    /\ jobs' = [jobs EXCEPT ![j].thr = "finished"]
    /\ UNCHANGED <<config, pools, ev, fenced, firewall, cachefile, sentinel,
                   FAILOVER_RESULT, reboots, limit, nonEventVars>>

\* one second passes while vrrp_backup waits in export_thread.join(timeout)
Tick(j) ==
    /\ Alive
    /\ Running(j) /\ jobs[j].pc = "join"
    /\ jobs[j].thr # "finished"
    /\ jobs[j].elapsed < ZPOOL_EXPORT_TIMEOUT
    /\ jobs' = [jobs EXCEPT ![j].elapsed = @ + 1]
    /\ UNCHANGED <<config, pools, ev, fenced, firewall, cachefile, sentinel,
                   FAILOVER_RESULT, reboots, limit, nonEventVars>>

\* variant: the test is inverted
is_alive_Inverted(thr) == thr = "finished"

\* export_thread.is_alive()
is_alive(thr) == thr # "finished"

\* variant: join() without a timeout
JoinReturns_NoTimeout(thr, elapsed) == thr = "finished"

\* export_thread.join(timeout=ZPOOL_EXPORT_TIMEOUT) returns when the thread
\* has ended or the timeout has passed
JoinReturns(thr, elapsed) == thr = "finished" \/ elapsed >= ZPOOL_EXPORT_TIMEOUT

\* export_thread.join(timeout=ZPOOL_EXPORT_TIMEOUT) returns, and is_alive()
\* decides the reboot through /proc/sysrq-trigger
vrrp_backup_join(j) ==
    /\ Alive
    /\ Running(j) /\ jobs[j].method = "vrrp_backup" /\ jobs[j].pc = "join"
    /\ JoinReturns(jobs[j].thr, jobs[j].elapsed)
    /\ IF is_alive(jobs[j].thr)
       THEN /\ jobs' = [jobs EXCEPT ![j].pc = "rebooted", ![j].alive = "yes",
                                    ![j].calls = Append(@, Call("sysrq-trigger.b"))]
            /\ reboots' = reboots + 1
       ELSE /\ jobs' = [jobs EXCEPT ![j].pc = "standby", ![j].alive = "no",
                                    ![j].elapsed = 0, ![j].wake = 0]
            /\ UNCHANGED reboots
    /\ UNCHANGED <<config, pools, ev, fenced, firewall, cachefile, sentinel,
                   FAILOVER_RESULT, limit, nonEventVars>>

\* vrrp_backup from the removal of the sentinel to the return of FAILOVER_RESULT
vrrp_backup_standby(j) ==
    /\ Alive
    /\ Running(j) /\ jobs[j].method = "vrrp_backup" /\ jobs[j].pc = "standby"
    /\ \E ssh \in BOOLEAN, unlink_error \in BestEffortErrors :
        /\ jobs' = Release([jobs EXCEPT ![j].state = "SUCCESS", ![j].pc = "done",
                                ![j].result = "SUCCESS",
                                ![j].calls = @ \o StandbyCalls(ssh, unlink_error)])
        /\ sentinel' = UnlinkSentinel(sentinel, unlink_error)
    /\ FAILOVER_RESULT' = "SUCCESS"
    /\ UNCHANGED <<config, pools, ev, fenced, firewall, cachefile, reboots, limit, nonEventVars>>

(* ------------------------------------------------------------------ *)
(* Specification                                                       *)
(* ------------------------------------------------------------------ *)
(* Encryption keys: failover.py                                        *)
(* ------------------------------------------------------------------ *)
\* concurrent calls of the key methods
MaxKeyOps == 2

KeyProcs == 1..MaxKeyOps

\* GELI pool names
GeliPools == {"tank"}

\* ZFS dataset names, as the sequence of their '/'-separated components
Datasets == {<<"tank">>, <<"tank", "home">>}

Passphrases == {"p1", "p2"}

NoKey == "none"

\* encryption_keys: the value the cache entry is created with,
\* {'geli': {}, 'zfs': {}}; a name without a key maps to NoKey
NoKeys == [geli |-> [p \in GeliPools |-> NoKey], zfs |-> [d \in Datasets |-> NoKey]]

\* the options of update_encryption_keys and remove_encryption_keys; one
\* passphrase stands for the passphrases of all items of an update
KeyOptions ==
    [sync_keys : BOOLEAN, pools : SUBSET GeliPools, datasets : SUBSET Datasets,
     passphrase : Passphrases]

NoOptions == [sync_keys |-> FALSE, pools |-> {}, datasets |-> {}, passphrase |-> NoKey]

\* k.startswith(f'{dataset}/')
StartsWith(k, dataset) ==
    Len(k) > Len(dataset) /\ SubSeq(k, 1, Len(dataset)) = dataset

\* update_encryption_keys: the two loops over options['pools'] and
\* options['datasets']
UpdateKeys(keys, options) ==
    [geli |-> [p \in GeliPools |->
                    IF p \in options.pools THEN options.passphrase ELSE keys.geli[p]],
     zfs |-> [d \in Datasets |->
                    IF d \in options.datasets THEN options.passphrase ELSE keys.zfs[d]]]

\* remove_encryption_keys: the pools are popped, each dataset is removed
\* together with the datasets below it
RemoveKeys(keys, options) ==
    [geli |-> [p \in GeliPools |-> IF p \in options.pools THEN NoKey ELSE keys.geli[p]],
     zfs |-> [k \in Datasets |->
                    IF \E dataset \in options.datasets :
                            k = dataset \/ StartsWith(k, dataset)
                    THEN NoKey ELSE keys.zfs[k]]]

\* what a call writes to the cache from the keys it read
ModifyKeys(kind, keys, options) ==
    IF kind = "update" THEN UpdateKeys(keys, options) ELSE RemoveKeys(keys, options)

NoKop ==
    [pc |-> "idle", kind |-> "none", options |-> NoOptions, keys |-> NoKeys,
     exc |-> "none", overlapped |-> FALSE, push |-> "none"]

\* another call is between its entry and its end
OthersActive(i) == \E o \in KeyProcs : o # i /\ kops[o].pc \notin {"idle", "done"}

KeysIdle ==
    /\ key_cache = NoKeys
    /\ peer_keys = NoKeys
    /\ ENCRYPTION_CACHE_LOCK = 0
    /\ kops = [i \in KeyProcs |-> NoKop]
    /\ alerts = {}
    /\ last_sync = "none"

\* the entry of update_encryption_keys (kind "update") or of
\* remove_encryption_keys (kind "remove"): CallError without pools and datasets
KeyCall(i, kind, options) ==
    /\ kops[i].pc = "idle"
    /\ \A q \in KeyProcs : q < i => kops[q].pc # "idle"
    /\ kops' = [kops EXCEPT ![i] =
                    [NoKop EXCEPT
                        !.kind = kind, !.options = options,
                        !.overlapped = OthersActive(i),
                        !.pc = IF options.pools = {} /\ options.datasets = {}
                               THEN "done" ELSE "acquire",
                        !.exc = IF options.pools = {} /\ options.datasets = {}
                                THEN "CallError" ELSE "none"]]
    /\ UNCHANGED <<nonKeyVars, licensed, status, key_cache, peer_keys,
                   ENCRYPTION_CACHE_LOCK, alerts, last_sync>>

update_encryption_keys(i, options) == KeyCall(i, "update", options)

remove_encryption_keys(i, options) ==
    KeyCall(i, "remove", [options EXCEPT !.passphrase = NoKey])

\* a call of sync_keys_to_remote_node with lock=True
sync_keys_to_remote_node(i) ==
    /\ kops[i].pc = "idle"
    /\ \A q \in KeyProcs : q < i => kops[q].pc # "idle"
    /\ kops' = [kops EXCEPT ![i] = [NoKop EXCEPT !.kind = "sync", !.pc = "guards",
                                          !.overlapped = OthersActive(i)]]
    /\ UNCHANGED <<nonKeyVars, licensed, status, key_cache, peer_keys,
                   ENCRYPTION_CACHE_LOCK, alerts, last_sync>>

\* variant: the lock is given to every caller
CanAcquire_Always(lock) == TRUE

\* asyncio.Lock: `async with ENCRYPTION_CACHE_LOCK` goes on when the lock is free
CanAcquire(lock) == lock = 0

\* `async with ENCRYPTION_CACHE_LOCK` of the three methods
AcquireLock(i) ==
    /\ kops[i].pc = "acquire"
    /\ CanAcquire(ENCRYPTION_CACHE_LOCK)
    /\ ENCRYPTION_CACHE_LOCK' = i
    /\ kops' = [kops EXCEPT ![i].pc = IF kops[i].kind = "sync" THEN "push_read" ELSE "read"]
    /\ UNCHANGED <<nonKeyVars, licensed, status, key_cache, peer_keys, alerts, last_sync>>

\* update / remove: keys = await self.encryption_keys()
ReadKeys(i) ==
    /\ kops[i].pc = "read"
    /\ kops' = [kops EXCEPT ![i].pc = "put", ![i].keys = key_cache]
    /\ UNCHANGED <<nonKeyVars, licensed, status, key_cache, peer_keys,
                   ENCRYPTION_CACHE_LOCK, alerts, last_sync>>

\* update / remove: the keys read are modified and written back with
\* cache.put; without sync_keys the method ends and the lock is released
PutKeys(i) ==
    /\ kops[i].pc = "put"
    /\ key_cache' = ModifyKeys(kops[i].kind, kops[i].keys, kops[i].options)
    /\ IF kops[i].options.sync_keys
       THEN /\ kops' = [kops EXCEPT ![i].pc = "guards", ![i].keys = key_cache']
            /\ UNCHANGED ENCRYPTION_CACHE_LOCK
       ELSE /\ kops' = [kops EXCEPT ![i].pc = "done", ![i].keys = key_cache']
            /\ ENCRYPTION_CACHE_LOCK' = 0
    /\ UNCHANGED <<nonKeyVars, licensed, status, peer_keys, alerts, last_sync>>

\* variant: sync_keys_to_remote_node takes the lock whoever calls it
LockArg_AlwaysTrue(kind) == TRUE

\* the `lock` argument of sync_keys_to_remote_node: the default True of a
\* call of its own, False when update or remove call it under the lock
LockArg(kind) == kind = "sync"

\* variant: only the license is tested
SyncSkipped_LicenseOnly(lic, st) == ~lic

\* sync_keys_to_remote_node: the two early returns, `if not licensed` and
\* `if status != 'MASTER'`
SyncSkipped(lic, st) == ~lic \/ st # "MASTER"

\* sync_keys_to_remote_node up to its `async with`: not licensed, not
\* MASTER, or no pong from the peer make it return. A caller that holds
\* the lock (lock=False) releases it when the method has returned.
SyncGuards(i) ==
    /\ kops[i].pc = "guards"
    /\ \E pong \in BOOLEAN :
        IF SyncSkipped(licensed, status) \/ ~pong
        THEN /\ kops' = [kops EXCEPT ![i].pc = "done",
                                     ![i].push = IF SyncSkipped(licensed, status)
                                                 THEN "skipped" ELSE "unreachable"]
             /\ ENCRYPTION_CACHE_LOCK' =
                    IF kops[i].kind = "sync" THEN ENCRYPTION_CACHE_LOCK ELSE 0
             /\ last_sync' = IF SyncSkipped(licensed, status) THEN last_sync
                             ELSE "unreachable"
        ELSE /\ kops' = [kops EXCEPT ![i].pc =
                            IF LockArg(kops[i].kind) THEN "acquire" ELSE "push_read"]
             /\ UNCHANGED <<ENCRYPTION_CACHE_LOCK, last_sync>>
    /\ UNCHANGED <<nonKeyVars, licensed, status, key_cache, peer_keys, alerts>>

\* sync_keys_to_remote_node: keys = await self.encryption_keys()
PushRead(i) ==
    /\ kops[i].pc = "push_read"
    /\ kops' = [kops EXCEPT ![i].pc = "push_put", ![i].keys = key_cache]
    /\ UNCHANGED <<nonKeyVars, licensed, status, key_cache, peer_keys,
                   ENCRYPTION_CACHE_LOCK, alerts, last_sync>>

\* variant: an alert once created is never deleted
SyncAlerts_NeverDeleted(old, alert, failed) ==
    IF failed THEN old \cup {alert} ELSE old

\* the except / else clauses of a push: alert.oneshot_create when it raised,
\* alert.oneshot_delete when it did not
SyncAlerts(old, alert, failed) ==
    IF failed THEN old \cup {alert} ELSE old \ {alert}

\* sync_keys_to_remote_node: cache.put on the peer, then the KMIP keys, each
\* with its alert; the lock is released at the end of the block
PushKeys(i) ==
    /\ kops[i].pc = "push_put"
    /\ \E ok \in BOOLEAN, kmip_ok \in BOOLEAN :
        /\ peer_keys' = IF ok THEN kops[i].keys ELSE peer_keys
        /\ alerts' = SyncAlerts(SyncAlerts(alerts, "FailoverKeysSyncFailed", ~ok),
                                "FailoverKMIPKeysSyncFailed", ~kmip_ok)
        /\ last_sync' = IF ok THEN "ok" ELSE "failed"
        /\ kops' = [kops EXCEPT ![i].pc = "done",
                                ![i].push = IF ok THEN "ok" ELSE "failed"]
    /\ ENCRYPTION_CACHE_LOCK' = 0
    /\ UNCHANGED <<nonKeyVars, licensed, status, key_cache>>

(* ------------------------------------------------------------------ *)
(* failover.disabled.reasons: disabled_reasons.py                      *)
(* ------------------------------------------------------------------ *)
\* calls of failover.disabled.reasons, one after the other
MaxReasonCalls == 2

\* interfaces returned by interface.query
MaxIfaces == 2

\* an interface: marked critical, has virtual aliases, one of its
\* vrrp_config entries is in state MASTER
IfaceRecs ==
    [failover_critical : BOOLEAN, failover_virtual_aliases : BOOLEAN,
     vrrp_master : BOOLEAN]

IfaceLists == UNION {[1..k -> IfaceRecs] : k \in 0..MaxIfaces}

\* len(zfs.pool.query_imported_fast): the boot pool alone, or with a data pool
ImportedCounts == {1, 2}

\* the loop over ifaces of get_reasons
crit_iface(ifaces) == \E n \in DOMAIN ifaces : ifaces[n].failover_critical
vip(ifaces) == \E n \in DOMAIN ifaces : ifaces[n].failover_virtual_aliases
master(ifaces) == \E n \in DOMAIN ifaces : ifaces[n].vrrp_master

\* variant: the three interface checks are made one after the other, none
\* skipping the next
InterfaceReasons_Independent(ifaces, fenced_running, num_of_zpools_imported) ==
    (IF ~crit_iface(ifaces) THEN {"NO_CRITICAL_INTERFACES"} ELSE {})
    \cup (IF ~vip(ifaces) THEN {"NO_VIP"} ELSE {})
    \cup (IF master(ifaces)
          THEN IF num_of_zpools_imported > 1
               THEN IF ~fenced_running THEN {"NO_FENCED"} ELSE {}
               ELSE {"NO_VOLUME"}
          ELSE {})

\* get_reasons: `if not crit_iface ... elif not vip ... elif master`
InterfaceReasons(ifaces, fenced_running, num_of_zpools_imported) ==
    IF ~crit_iface(ifaces) THEN {"NO_CRITICAL_INTERFACES"}
    ELSE IF ~vip(ifaces) THEN {"NO_VIP"}
    ELSE IF master(ifaces)
    THEN IF num_of_zpools_imported > 1
         THEN IF ~fenced_running THEN {"NO_FENCED"} ELSE {}
         ELSE {"NO_VOLUME"}
    ELSE {}

\* get_reasons before its try block
LocalReasons(disabled, ifaces, fenced_running, num_of_zpools_imported) ==
    (IF disabled THEN {"NO_FAILOVER"} ELSE {})
    \cup InterfaceReasons(ifaces, fenced_running, num_of_zpools_imported)

\* what the peer answers in the try block. raises_at is 0 when no call
\* raises, else the first call that does: 1 system.ready, 2 the remote
\* zfs.pool.query_imported_fast, 3 failover.licensed, 4 the vip states,
\* 5 failover.mismatch_disks. Answers that are never read have one value.
PeerAnswers ==
    {p \in [connected : BOOLEAN, raises_at : 0..5, ready : BOOLEAN,
            pools : ImportedCounts, licensed : BOOLEAN, disagree : BOOLEAN,
            mismatch : BOOLEAN] :
        LET read(k) == p.connected /\ (p.raises_at = 0 \/ k < p.raises_at)
        IN /\ ~p.connected => p.raises_at = 0
           /\ ~read(1) => p.ready
           /\ ~read(2) => p.pools = 2
           /\ ~read(3) => p.licensed
           /\ ~read(4) => ~p.disagree
           /\ ~read(5) => ~p.mismatch}

NoPeer ==
    [connected |-> FALSE, raises_at |-> 0, ready |-> TRUE, pools |-> 2,
     licensed |-> TRUE, disagree |-> FALSE, mismatch |-> FALSE]

\* get_reasons: the try block. The reasons of the calls that returned before
\* the one that raised stay in the set; the except clause adds NO_PONG.
PeerReasons(p) ==
    IF ~p.connected THEN {"NO_PONG"}
    ELSE LET returned(k) == p.raises_at = 0 \/ k < p.raises_at
         IN (IF returned(1) /\ ~p.ready THEN {"NO_SYSTEM_READY"} ELSE {})
            \cup (IF returned(2) /\ p.pools <= 1 THEN {"NO_VOLUME"} ELSE {})
            \cup (IF returned(3) /\ ~p.licensed THEN {"NO_LICENSE"} ELSE {})
            \cup (IF returned(4) /\ p.disagree THEN {"DISAGREE_VIP"} ELSE {})
            \cup (IF returned(5) /\ p.mismatch THEN {"MISMATCH_DISKS"} ELSE {})
            \cup (IF p.raises_at # 0 THEN {"NO_PONG"} ELSE {})

\* the locals of get_reasons once its loop over ifaces is over
NoLocals ==
    [disabled |-> FALSE, crit_iface |-> FALSE, vip |-> FALSE, master |-> FALSE,
     fenced_running |-> FALSE, num_of_zpools_imported |-> 1]

ReasonsIdle ==
    /\ LAST_DISABLED_REASONS = <<>>
    /\ rcall = [pc |-> "idle", n |-> 0, locals |-> NoLocals, peer |-> NoPeer,
                reasons |-> {}, prev |-> <<>>, emitted |-> FALSE]
    /\ sent_events = 0

\* reasons() calls get_reasons, which runs up to its try block
get_reasons(disabled, ifaces, fenced_running, num_of_zpools_imported) ==
    /\ rcall.pc = "idle"
    /\ rcall.n < MaxReasonCalls
    /\ rcall' = [rcall EXCEPT
                    !.pc = "try",
                    !.locals = [disabled |-> disabled,
                                crit_iface |-> crit_iface(ifaces),
                                vip |-> vip(ifaces), master |-> master(ifaces),
                                fenced_running |-> fenced_running,
                                num_of_zpools_imported |-> num_of_zpools_imported],
                    !.reasons = LocalReasons(disabled, ifaces, fenced_running,
                                             num_of_zpools_imported),
                    !.emitted = FALSE]
    /\ UNCHANGED <<nonReasonVars, LAST_DISABLED_REASONS, sent_events>>

\* get_reasons: the try block and the return
get_reasons_try(p) ==
    /\ rcall.pc = "try"
    /\ rcall' = [rcall EXCEPT !.pc = "compare", !.locals = NoLocals, !.peer = p,
                              !.reasons = @ \cup PeerReasons(p)]
    /\ UNCHANGED <<nonReasonVars, LAST_DISABLED_REASONS, sent_events>>

\* variant: the event is sent whenever a reason is reported
Changed_AnyReason(reasons, last) == reasons # {}

\* reasons: `if reasons != LAST_DISABLED_REASONS`
Changed(reasons, last) == last # <<reasons>>

\* reasons() after get_reasons: the comparison, the assignment and the event
reasons ==
    /\ rcall.pc = "compare"
    /\ IF Changed(rcall.reasons, LAST_DISABLED_REASONS)
       THEN /\ LAST_DISABLED_REASONS' = <<rcall.reasons>>
            /\ sent_events' = sent_events + 1
       ELSE UNCHANGED <<LAST_DISABLED_REASONS, sent_events>>
    /\ rcall' = [rcall EXCEPT !.pc = "idle", !.n = @ + 1, !.peer = NoPeer,
                              !.reasons = {}, !.prev = <<rcall.reasons>>,
                              !.emitted = Changed(rcall.reasons, LAST_DISABLED_REASONS)]
    /\ UNCHANGED nonReasonVars

(* ------------------------------------------------------------------ *)
(* failover.update: failover.py                                        *)
(* ------------------------------------------------------------------ *)
\* calls of failover.update, one after the other
MaxUpdates == 2

FailoverNodes == {"A", "B", "MANUAL"}

Timeouts == {0, 2}

\* an argument that may be left out: <<>> when it is, else <<value>>
Optional(values) == {<<>>} \cup {<<v>> : v \in values}
Provided(x) == x # <<>>

\* the argument of failover.update
UpdateData ==
    [disabled : Optional(BOOLEAN), master : Optional(BOOLEAN),
     timeout : Optional(Timeouts)]

NoData == [disabled |-> <<>>, master |-> <<>>, timeout |-> <<>>]

Rows == [disabled : BOOLEAN, master_node : {"A", "B"}, timeout : Timeouts]

\* failover_extend: master_node of the row becomes `master`
failover_extend(row, n) ==
    [disabled |-> row.disabled, timeout |-> row.timeout,
     master |-> (n = row.master_node)]

\* _master_node: the slot to store for this node being master or not;
\* CallError in MANUAL mode
_master_node(n, is_master) ==
    IF n = "A" THEN (IF is_master THEN "A" ELSE "B")
    ELSE IF n = "B" THEN (IF is_master THEN "B" ELSE "A")
    ELSE "CallError"

\* do_update: new['master_node']. With `master` given the slot of the
\* calling node is stored whatever the value; without it _master_node is
\* called with NOT_PROVIDED, an object that is true in a condition.
NewMasterNode(n, master_arg) ==
    IF Provided(master_arg) THEN n ELSE _master_node(n, TRUE)

\* do_update: new = old.copy(); new.update(data)
NewRow(old, data) ==
    [disabled |-> IF Provided(data.disabled) THEN data.disabled[1] ELSE old.disabled,
     timeout |-> IF Provided(data.timeout) THEN data.timeout[1] ELSE old.timeout,
     master_node |-> old.master_node]

\* variant: the interfaces are not looked at
Rejected_Never(new, crit) == FALSE

\* do_update: the validation error 'You need at least one critical interface
\* to enable failover.'
Rejected(new, crit) == new.disabled = FALSE /\ ~crit

\* the latest call of failover.update or failover.control: its arguments,
\* whether an interface was critical for failover when it was made, the row
\* it found, how it ended and whether it wrote the row
NoUcall ==
    [n |-> 0, op |-> "none", data |-> NoData, action |-> "none", active |-> <<>>,
     crit |-> FALSE, exc |-> "none", old |-> <<>>, result |-> <<>>,
     wrote |-> FALSE]

\* no failover.update call: node A with its row
NoUpdates ==
    /\ node = "A"
    /\ datastore = [disabled |-> FALSE, master_node |-> "A", timeout |-> 0]
    /\ ucall = NoUcall
    /\ force_master = <<>>

UpdateIdle ==
    /\ ucall = NoUcall
    /\ force_master = <<>>

\* failover.update, the whole method: crit says whether interface.query finds
\* an interface that is critical for failover
do_update(data, crit) ==
    /\ ucall.n < MaxUpdates
    /\ LET master_node == NewMasterNode(node, data.master)
           new == [NewRow(datastore, data) EXCEPT !.master_node = master_node]
           call == [NoUcall EXCEPT !.n = ucall.n + 1, !.op = "update",
                                   !.data = data, !.crit = crit,
                                   !.old = <<datastore>>]
       IN IF master_node = "CallError"
          THEN /\ ucall' = [call EXCEPT !.exc = "CallError"]
               /\ UNCHANGED <<datastore, force_master>>
          ELSE IF Rejected(new, crit)
          THEN /\ ucall' = [call EXCEPT !.exc = "ValidationErrors"]
               /\ UNCHANGED <<datastore, force_master>>
          ELSE /\ datastore' = new
               /\ force_master' =
                      IF new.disabled
                      THEN Append(force_master, IF new.master_node = node
                                                THEN "local" ELSE "remote")
                      ELSE force_master
               /\ ucall' = [call EXCEPT !.wrote = TRUE,
                                        !.result = <<failover_extend(new, node)>>]
    /\ UNCHANGED <<nonUpdateVars, node>>

ControlActions == {"ENABLE", "DISABLE"}

\* control: the slot to store. Without options the argument of _master_node
\* is the name of the node, a string that is true in a condition; with
\* options it is options.get('active')
ControlNode(n, active) ==
    _master_node(n, IF Provided(active) THEN active[1] ELSE TRUE)

\* control: `return False` when the row already has the state asked for
AlreadySet(row, action) == row.disabled = (action = "DISABLE")

\* failover.control, the whole method; crit is what interface.query would
\* find, which control does not ask for
control(action, active, crit) ==
    /\ ucall.n < MaxUpdates
    /\ LET slot == ControlNode(node, active)
           call == [NoUcall EXCEPT !.n = ucall.n + 1, !.op = "control",
                                   !.action = action, !.active = active,
                                   !.crit = crit, !.old = <<datastore>>]
       IN IF slot = "CallError"
          THEN /\ ucall' = [call EXCEPT !.exc = "CallError"]
               /\ UNCHANGED datastore
          ELSE IF AlreadySet(datastore, action)
          THEN /\ ucall' = [call EXCEPT !.result = <<FALSE>>]
               /\ UNCHANGED datastore
          ELSE /\ datastore' = [datastore EXCEPT !.disabled = (action = "DISABLE"),
                                                 !.master_node = slot]
               /\ ucall' = [call EXCEPT !.wrote = TRUE]
    /\ UNCHANGED <<nonUpdateVars, node, force_master>>

(* ------------------------------------------------------------------ *)
(* restart_services: event.py                                          *)
(* ------------------------------------------------------------------ *)
\* calls of restart_services, one after the other
MaxRestarts == 2

CRITICAL_SERVICES == {"iscsitarget", "cifs", "nfs"}

\* the rows of services_services, in the order datastore.query returns them
ServiceRows == <<"cifs", "iscsitarget", "nfs", "ssh", "snmp">>

ServiceNames == {ServiceRows[i] : i \in 1..Len(ServiceRows)}

\* [i for i in rows if keep(i)]
RECURSIVE Filter(_, _)
Filter(rows, keep) ==
    IF rows = <<>> THEN <<>>
    ELSE (IF Head(rows) \in keep THEN <<Head(rows)>> ELSE <<>>)
         \o Filter(Tail(rows), keep)

\* variant: the non-critical phase restarts every enabled service
to_restart_AllWhenNotCritical(enabled, critical, dataset) ==
    IF critical
    THEN Filter(Filter(ServiceRows, enabled), CRITICAL_SERVICES)
    ELSE Filter(ServiceRows, enabled)
         \o (IF dataset THEN <<"kubernetes">> ELSE <<>>)

\* restart_services: the list to_restart; dataset says whether
\* kubernetes.config has a dataset
to_restart(enabled, critical, dataset) ==
    IF critical
    THEN Filter(Filter(ServiceRows, enabled), CRITICAL_SERVICES)
    ELSE Filter(Filter(ServiceRows, enabled), ServiceNames \ CRITICAL_SERVICES)
         \o (IF dataset THEN <<"kubernetes">> ELSE <<>>)

\* how restart_service ends: service.restart returned, wait_for raised
\* asyncio.TimeoutError, or service.restart raised another error
RestartOutcomes == {"ok", "timeout", "error"}

NoRs ==
    [pc |-> "idle", n |-> 0, critical |-> FALSE, dataset |-> FALSE,
     to_restart |-> <<>>, results |-> <<>>, logged |-> {}, exc |-> "none",
     phases |-> <<>>]

RestartIdle == rs = NoRs

\* no restart_services call: no service is enabled
NoRestarts ==
    /\ srv_enable = {}
    /\ RestartIdle

\* restart_services up to asyncio.gather: the list is computed and every
\* restart_service coroutine is started
restart_services(critical, dataset) ==
    /\ rs.pc = "idle"
    /\ rs.n < MaxRestarts
    /\ LET list == to_restart(srv_enable, critical, dataset)
       IN rs' = [rs EXCEPT !.pc = "gather", !.critical = critical,
                           !.dataset = dataset, !.to_restart = list,
                           !.results = [i \in 1..Len(list) |-> "running"],
                           !.logged = {}]
    /\ UNCHANGED <<nonRestartVars, srv_enable>>

\* restart_service: one of the gathered coroutines ends
restart_service(i, outcome) ==
    /\ rs.pc = "gather"
    /\ i \in 1..Len(rs.to_restart)
    /\ rs.results[i] = "running"
    /\ rs' = [rs EXCEPT !.results[i] = outcome]
    /\ UNCHANGED <<nonRestartVars, srv_enable>>

\* restart_services after asyncio.gather(return_exceptions=True): the
\* timeouts are logged
restart_services_return ==
    /\ rs.pc = "gather"
    /\ \A i \in 1..Len(rs.to_restart) : rs.results[i] # "running"
    /\ rs' = [rs EXCEPT !.pc = "idle", !.n = @ + 1,
                        !.logged = {rs.to_restart[i] : i \in
                                      {k \in 1..Len(rs.to_restart) :
                                            rs.results[k] = "timeout"}},
                        !.phases = Append(@, [critical |-> rs.critical,
                                              dataset |-> rs.dataset,
                                              restarted |-> rs.to_restart])]
    /\ UNCHANGED <<nonRestartVars, srv_enable>>

(* ------------------------------------------------------------------ *)
(* sync_to_peer: failover.py                                           *)
(* ------------------------------------------------------------------ *)
\* the calls of sync_to_peer, in the order of its statements
SyncSteps ==
    <<"failover.send_database", "failover.sync_keys_to_remote_node",
      "send_small_file.license", "send_small_file.pwenc_secret",
      "send_small_file.authorized_keys", "send_small_file.zpool_cache",
      "call_remote.failover.zpool.cachefile.setup",
      "call_remote.core.call_hook.config.on_upload",
      "system.product_type",
      "call_remote.core.call_hook.system.post_license_update",
      "call_remote.system.reboot">>

KeysStep == {n \in 1..Len(SyncSteps) : SyncSteps[n] = "failover.sync_keys_to_remote_node"}

FileSteps ==
    {n \in 1..Len(SyncSteps) :
        SyncSteps[n] \in {"send_small_file.license", "send_small_file.pwenc_secret",
                          "send_small_file.authorized_keys",
                          "send_small_file.zpool_cache"}}

\* how a step ends. sync_keys_to_remote_node returns when the keys are on
\* the peer ("ok") and also when it gave up or its push raised ("failed"):
\* it logs and raises nothing. send_small_file returns without sending when
\* the file does not exist ("missing"). Every other end is an exception.
StepOutcomes(n) ==
    IF n \in KeysStep THEN {"ok", "failed"}
    ELSE IF n \in FileSteps THEN {"ok", "missing", "raise"}
    ELSE {"ok", "raise"}

\* variant: the peer is rebooted whatever the option
LastStep_AlwaysReboot(reboot) == Len(SyncSteps)

\* `if options['reboot']`: the reboot of the peer is the last step
LastStep(reboot) == IF reboot THEN Len(SyncSteps) ELSE Len(SyncSteps) - 1

\* the sync_to_peer call: pc is the step to make next, 0 before the call
\* and past the last step when the method is over
NoSp ==
    [pc |-> 0, reboot |-> FALSE, calls |-> <<>>, exc |-> "none",
     keys_failed |-> FALSE, missing |-> {}]

\* no sync_to_peer call
NoPeerSync == sp = NoSp

\* sync_to_peer is called
sync_to_peer(reboot) ==
    /\ sp.pc = 0
    /\ sp' = [sp EXCEPT !.pc = 1, !.reboot = reboot]
    /\ UNCHANGED nonPeerVars

\* one statement of sync_to_peer: the call is made; an exception ends the
\* method, anything else goes on with the next statement
sync_step(outcome) ==
    /\ sp.pc \in 1..Len(SyncSteps)
    /\ outcome \in StepOutcomes(sp.pc)
    /\ sp' = [sp EXCEPT
                !.calls = Append(@, SyncSteps[sp.pc]),
                !.exc = IF outcome = "raise" THEN "raised" ELSE @,
                !.keys_failed = @ \/ outcome = "failed",
                !.missing = IF outcome = "missing" THEN @ \cup {sp.pc} ELSE @,
                !.pc = IF outcome = "raise" \/ sp.pc >= LastStep(sp.reboot)
                       THEN Len(SyncSteps) + 1 ELSE sp.pc + 1]
    /\ UNCHANGED nonPeerVars

(* ------------------------------------------------------------------ *)
Next ==
    \/ \E p \in Procs, ifname \in Ifnames, event \in EventKinds : Event(p, ifname, event)
    \/ \E p \in Procs : EventChecks(p)
    \/ \E p \in Procs : validate(p)
    \/ \E p \in Procs : StartJob(p)
    \/ \E p \in Procs : StatusRefresh(p)
    \/ \E j \in JobIds : vrrp_master_elect(j)
    \/ \E j \in JobIds : vrrp_master_import(j)
    \/ \E j \in JobIds : vrrp_master_critical(j)
    \/ \E j \in JobIds : vrrp_master_background(j)
    \/ \E j \in JobIds : vrrp_backup_begin(j)
    \/ \E j \in JobIds : _export_zpools(j)
    \/ \E j \in JobIds : export_thread_exit(j)
    \/ \E j \in JobIds : Tick(j)
    \/ \E j \in JobIds : vrrp_backup_join(j)
    \/ \E j \in JobIds : vrrp_backup_standby(j)

\* concurrent event() calls
Init ==
    /\ InitWith(MaxEvents, RacePools)
    /\ licensed = TRUE /\ status = "MASTER" /\ KeysIdle
    /\ ReasonsIdle
    /\ NoUpdates
    /\ NoRestarts
    /\ NoPeerSync

Spec == Init /\ [][Next]_vars

\* one event() call, every pool list
InitOne ==
    /\ InitWith(1, MaxPools)
    /\ licensed = TRUE /\ status = "MASTER" /\ KeysIdle
    /\ ReasonsIdle
    /\ NoUpdates
    /\ NoRestarts
    /\ NoPeerSync

SpecOne == InitOne /\ [][Next]_vars

\* a step of the calling thread of job j: every call it makes returns, and
\* time passes while it waits in join
JobStep(j) ==
    /\ j \in JobIds
    /\ \/ vrrp_master_elect(j) \/ vrrp_master_import(j)
       \/ vrrp_master_critical(j) \/ vrrp_master_background(j)
       \/ vrrp_backup_begin(j) \/ Tick(j)
       \/ vrrp_backup_join(j) \/ vrrp_backup_standby(j)

\* one event() call whose job keeps running; nothing is assumed of the
\* export thread, which may block in an export forever
SpecOneLive ==
    InitOne /\ [][Next]_vars /\ \A j \in 1..MaxEvents : WF_vars(JobStep(j))

NextKeys ==
    \/ \E i \in KeyProcs, options \in KeyOptions : update_encryption_keys(i, options)
    \/ \E i \in KeyProcs, options \in KeyOptions : remove_encryption_keys(i, options)
    \/ \E i \in KeyProcs : sync_keys_to_remote_node(i)
    \/ \E i \in KeyProcs : AcquireLock(i)
    \/ \E i \in KeyProcs : ReadKeys(i)
    \/ \E i \in KeyProcs : PutKeys(i)
    \/ \E i \in KeyProcs : SyncGuards(i)
    \/ \E i \in KeyProcs : PushRead(i)
    \/ \E i \in KeyProcs : PushKeys(i)

\* concurrent calls of the key methods, no failover event
InitKeys ==
    /\ InitWith(0, 0)
    /\ config = [disabled |-> FALSE, master |-> TRUE]
    /\ licensed \in BOOLEAN
    /\ status \in {"MASTER", "BACKUP"}
    /\ KeysIdle
    /\ ReasonsIdle
    /\ NoUpdates
    /\ NoRestarts
    /\ NoPeerSync

SpecKeys == InitKeys /\ [][NextKeys]_vars

\* a step of call i after its entry: every await returns or raises, and a
\* free lock is given to a waiter
KeyStep(i) ==
    \/ AcquireLock(i) \/ ReadKeys(i) \/ PutKeys(i)
    \/ SyncGuards(i) \/ PushRead(i) \/ PushKeys(i)

SpecKeysLive ==
    InitKeys /\ [][NextKeys]_vars /\ \A i \in KeyProcs : WF_vars(KeyStep(i))

NextReasons ==
    \/ \E disabled \in BOOLEAN, ifaces \in IfaceLists, fenced_running \in BOOLEAN,
          num_of_zpools_imported \in ImportedCounts :
            get_reasons(disabled, ifaces, fenced_running, num_of_zpools_imported)
    \/ \E p \in PeerAnswers : get_reasons_try(p)
    \/ reasons

\* calls of failover.disabled.reasons, nothing else
InitReasons ==
    /\ InitWith(0, 0)
    /\ config = [disabled |-> FALSE, master |-> TRUE]
    /\ licensed = TRUE /\ status = "MASTER" /\ KeysIdle
    /\ ReasonsIdle
    /\ NoUpdates
    /\ NoRestarts
    /\ NoPeerSync

SpecReasons == InitReasons /\ [][NextReasons]_vars

NextUpdate ==
    \/ \E data \in UpdateData, crit \in BOOLEAN : do_update(data, crit)
    \/ \E action \in ControlActions, active \in Optional(BOOLEAN), crit \in BOOLEAN :
            control(action, active, crit)

\* calls of failover.update on either node, from every stored row
InitUpdate ==
    /\ InitWith(0, 0)
    /\ config = [disabled |-> FALSE, master |-> TRUE]
    /\ licensed = TRUE /\ status = "MASTER" /\ KeysIdle
    /\ ReasonsIdle
    /\ node \in FailoverNodes
    /\ datastore \in Rows
    /\ UpdateIdle
    /\ NoRestarts
    /\ NoPeerSync

SpecUpdate == InitUpdate /\ [][NextUpdate]_vars

NextRestart ==
    \/ \E critical \in BOOLEAN, dataset \in BOOLEAN : restart_services(critical, dataset)
    \/ \E i \in 1..(Len(ServiceRows) + 1), outcome \in RestartOutcomes :
            restart_service(i, outcome)
    \/ restart_services_return

\* calls of restart_services, for every set of enabled services
InitRestart ==
    /\ InitWith(0, 0)
    /\ config = [disabled |-> FALSE, master |-> TRUE]
    /\ licensed = TRUE /\ status = "MASTER" /\ KeysIdle
    /\ ReasonsIdle
    /\ NoUpdates
    /\ srv_enable \in SUBSET ServiceNames
    /\ RestartIdle
    /\ NoPeerSync

SpecRestart == InitRestart /\ [][NextRestart]_vars

NextPeer ==
    \/ \E reboot \in BOOLEAN : sync_to_peer(reboot)
    \/ \E outcome \in {"ok", "failed", "missing", "raise"} : sync_step(outcome)

\* one sync_to_peer call
InitPeer ==
    /\ InitWith(0, 0)
    /\ config = [disabled |-> FALSE, master |-> TRUE]
    /\ licensed = TRUE /\ status = "MASTER" /\ KeysIdle
    /\ ReasonsIdle
    /\ NoUpdates
    /\ NoRestarts
    /\ NoPeerSync

SpecPeer == InitPeer /\ [][NextPeer]_vars

(* ------------------------------------------------------------------ *)
(* Properties                                                          *)
(* ------------------------------------------------------------------ *)
MasterJobs == {j \in JobIds : jobs[j].method = "vrrp_master"}
BackupJobs == {j \in JobIds : jobs[j].method = "vrrp_backup"}

ImportOps == {"zfs.pool.import_pool", "zfs.pool.import_pool.nocachefile"}

\* what a MASTER transition does once fencing succeeded and zpools exist
AfterFencingOps ==
    ImportOps \cup
    {"failover.zpool.cachefile.setup", "service.restart.http",
     "failover.events.restart_services.critical",
     "failover.events.restart_services", "failover.firewall.accept_all"}

\* the steps after the import loop, in the order of vrrp_master
DownstreamOps ==
    {"failover.status_refresh", "etc.generate.rc", "systemdataset.setup",
     "etc.generate.ssl", "service.restart.http",
     "failover.events.restart_services.critical", "failover.firewall.accept_all",
     "etc.generate.cron", "disk.sync_all", "failover.events.background",
     "failover.events.restart_services", "vm.start_on_boot",
     "alert.block_failover_alerts", "alert.initialize", "kmip.config"}

AnyRunning == \E j \in JobIds : jobs[j].state = "RUNNING"

\* C1: in a MASTER transition every pool import comes after a fenced.start of
\* the same job that returned 0; a fenced.start that returns anything else
\* ends the job with progress ERROR and FencedError, without cachefile setup,
\* pool import, service restart or firewall accept.
C1_FencingBeforeImport ==
    \A j \in MasterJobs :
        LET c == jobs[j].calls
        IN /\ \A n \in 1..Len(c) :
                c[n].op \in AfterFencingOps =>
                    /\ jobs[j].fenced_error = 0
                    /\ \E m \in 1..(n - 1) : c[m].op = "failover.fenced.start"
           /\ jobs[j].fenced_error \notin {-1, 0} =>
                /\ jobs[j].state = "FAILED"
                /\ jobs[j].progress = "ERROR"
                /\ jobs[j].exc = "FencedError"
                /\ Ops(c) \cap AfterFencingOps = {}
                /\ cachefile = "none" /\ firewall = "drop"
                /\ pools = jobs[j].fobj.volumes

\* a forced or plain MASTER job stopped by fenced reporting "running on remote"
C1_Witness ==
    \E j \in MasterJobs :
        /\ jobs[j].fenced_error = 2
        /\ jobs[j].exc = "FencedError"
        /\ jobs[j].fobj.volumes # <<>>

\* C2: at most one transition job, of either kind, is RUNNING at any time.
C2_OneTransitionRunning ==
    Cardinality({j \in JobIds : jobs[j].state = "RUNNING"}) <= 1

\* C3: no transition job waits for its lock and runs once the job in flight
\* has finished.
C3_NeverQueued ==
    [][\A j \in JobIds : ~(jobs[j].state = "WAITING" /\ jobs'[j].state = "RUNNING")]_vars

\* C4: an event() call that reaches validate while a transition job is RUNNING
\* leaves with IgnoreFailoverEvent and creates no job, whatever its interface
\* and kind; an ignored call never has a job.
C4_InFlightIgnored ==
    [][\A p \in Procs :
        /\ (ev[p].pc = "validate" /\ AnyRunning /\ ev'[p] # ev[p]) =>
                /\ ev'[p].pc = "done"
                /\ ev'[p].ignored = "in_flight"
                /\ jobs' = jobs
        /\ ev'[p].ignored # "no" => ev'[p].job = 0]_vars

\* a forcetakeover dropped because a BACKUP transition is running
C4_Witness ==
    \E p \in Procs, j \in BackupJobs :
        /\ ev[p].event = "forcetakeover"
        /\ ev[p].ignored = "in_flight"
        /\ jobs[j].state = "RUNNING"

\* C5: at most one vrrp_master job runs at any time, and at most one
\* vrrp_backup job.
C5_OneJobPerLock ==
    /\ Cardinality({j \in MasterJobs : jobs[j].state = "RUNNING"}) <= 1
    /\ Cardinality({j \in BackupJobs : jobs[j].state = "RUNNING"}) <= 1

\* a second vrrp_master job is held back while the first one runs
C5_Witness ==
    \E j, k \in MasterJobs :
        /\ jobs[j].state = "RUNNING"
        /\ jobs[k].state = "WAITING"

\* C6: a MASTER transition with zpools whose every import failed ends with
\* progress ERROR and AllZpoolsFailedToImport, and runs no step after the
\* import loop.
C6_AllFailedAborts ==
    \A j \in MasterJobs :
        LET vols == jobs[j].fobj.volumes
        IN (/\ vols # <<>>
            /\ jobs[j].idx > Len(vols)
            /\ Len(jobs[j].failed) = Len(vols)) =>
                /\ jobs[j].pc \in {"import", "done"}
                /\ jobs[j].pc = "done" =>
                        /\ jobs[j].state = "FAILED"
                        /\ jobs[j].progress = "ERROR"
                        /\ jobs[j].exc = "AllZpoolsFailedToImport"
                /\ Ops(jobs[j].calls) \cap DownstreamOps = {}
                /\ firewall = "drop"
                /\ FAILOVER_RESULT = "None"

\* both zpools failed, one of them after the retry without the cachefile
C6_Witness ==
    \E j \in MasterJobs :
        /\ jobs[j].exc = "AllZpoolsFailedToImport"
        /\ Len(jobs[j].fobj.volumes) = 2
        /\ "zfs.pool.import_pool.nocachefile" \in Ops(jobs[j].calls)

\* C7: a MASTER transition in which some but not all imports failed tried the
\* import of every zpool, and when it is over it has run every step after
\* the import loop and ended with progress SUCCESS and result SUCCESS.
C7_PartialFailureContinues ==
    \A j \in MasterJobs :
        LET vols == jobs[j].fobj.volumes
            c == jobs[j].calls
        IN (/\ jobs[j].idx > Len(vols)
            /\ Len(jobs[j].failed) > 0
            /\ Len(jobs[j].failed) < Len(vols)) =>
                /\ \A v \in 1..Len(vols) :
                      \E n \in 1..Len(c) :
                          c[n].op = "zfs.pool.import_pool" /\ c[n].arg = v
                /\ jobs[j].exc = "none"
                /\ jobs[j].pc = "done" =>
                        /\ jobs[j].state = "SUCCESS"
                        /\ jobs[j].progress = "SUCCESS"
                        /\ jobs[j].result = "SUCCESS"
                        /\ DownstreamOps \subseteq Ops(c)
                        /\ firewall = "accept"
                        /\ FAILOVER_RESULT = "SUCCESS"

\* the first zpool failed, the second was imported, the job succeeded
C7_Witness ==
    \E j \in MasterJobs :
        /\ jobs[j].failed = <<1>>
        /\ Len(jobs[j].fobj.volumes) = 2
        /\ jobs[j].result = "SUCCESS"
        /\ pools[2] = "ONLINE"

\* number of calls of op in a job's log
Count(calls, op) == Cardinality({n \in 1..Len(calls) : calls[n].op = op})

\* the export of zpool n raised in job j
ExportRaised(j, n) ==
    \E k \in 1..Len(jobs[j].calls) :
        jobs[j].calls[k].op = "logger.error.export" /\ jobs[j].calls[k].arg = n

\* C8: when vrrp_backup leaves the join of the export thread, the thread being
\* unfinished means the deadline of ZPOOL_EXPORT_TIMEOUT seconds has expired and
\* 'b' is written to sysrq-trigger, once; the thread being finished means no
\* reboot. The export thread is started once per job and there is never a
\* second reboot.
C8_RebootOnDeadline ==
    [][\A j \in BackupJobs :
        /\ (jobs[j].pc = "join" /\ jobs'[j].pc # "join") =>
              IF jobs[j].thr # "finished"
              THEN /\ jobs[j].elapsed = ZPOOL_EXPORT_TIMEOUT
                   /\ reboots' = reboots + 1
                   /\ jobs'[j].pc = "rebooted"
                   /\ Count(jobs'[j].calls, "sysrq-trigger.b") = 1
              ELSE /\ reboots' = reboots
                   /\ jobs'[j].pc = "standby"
                   /\ Count(jobs'[j].calls, "sysrq-trigger.b") = 0
        /\ jobs[j].pc # "join" => reboots' = reboots
        /\ reboots' <= 1
        /\ jobs'[j].thr_starts <= 1
        /\ Count(jobs'[j].calls, "export_thread.start") <= 1
        /\ jobs'[j].pc \in {"standby", "done"} =>
              Count(jobs'[j].calls, "sysrq-trigger.b") = 0]_vars

\* an export that hangs (it neither returned nor raised) until the deadline
C8_Witness ==
    \E j \in BackupJobs :
        /\ jobs[j].pc = "rebooted"
        /\ jobs[j].thr = "running"
        /\ jobs[j].thr_idx <= Len(jobs[j].fobj.volumes)
        /\ reboots = 1

\* C9, as claimed: after the export of one zpool raised while another zpool of
\* the snapshot was still to be exported, the other zpool is exported and
\* the node is not rebooted.
C9_ExportFailureTolerated ==
    \A j \in BackupJobs :
        \A n \in 1..Len(jobs[j].fobj.volumes) :
            (/\ ExportRaised(j, n)
             /\ \E m \in (n + 1)..Len(jobs[j].fobj.volumes) :
                    jobs[j].fobj.volumes[m] # "OFFLINE") =>
                jobs[j].pc # "rebooted"

\* C9, amended: an export that raises ends the export loop; no later zpool is
\* exported, the export thread sleeps ZPOOL_EXPORT_TIMEOUT + 1 seconds and is
\* therefore alive at the join deadline, and the job never goes past the join
\* except into the reboot.
C9_ExportFailureReboots ==
    \A j \in BackupJobs :
        \A n \in 1..Len(jobs[j].fobj.volumes) :
            ExportRaised(j, n) =>
                /\ jobs[j].thr = "sleeping"
                /\ jobs[j].wake > ZPOOL_EXPORT_TIMEOUT
                /\ jobs[j].pc \in {"join", "rebooted"}
                /\ jobs[j].state = "RUNNING"
                /\ jobs[j].thr_idx = n
                /\ \A k \in 1..Len(jobs[j].calls) :
                      jobs[j].calls[k].op = "zfs.pool.export" => jobs[j].calls[k].arg <= n
                /\ (jobs[j].pc = "rebooted" => reboots = 1)

\* the first export raised, the second zpool was never exported, the node rebooted
C9_Witness ==
    \E j \in BackupJobs :
        /\ ExportRaised(j, 1)
        /\ Len(jobs[j].fobj.volumes) = 2
        /\ jobs[j].fobj.volumes[2] = "ONLINE"
        /\ pools[2] = "ONLINE"
        /\ jobs[j].pc = "rebooted"

C11_DisabledIgnored ==
    [][/\ \A p \in Procs :
            (/\ ev[p].pc = "checks"
             /\ ev[p].event # "forcetakeover"
             /\ ev[p].fobj.disabled
             /\ ev'[p] # ev[p])
            => /\ ev'[p].pc = "done"
               /\ ev'[p].ignored \in {"disabled", "disabled_backup"}
               /\ ev'[p].job = 0
               /\ jobs' = jobs
               /\ fenced' = fenced
               /\ pools' = pools
       /\ \A j \in DOMAIN jobs' :
            j \notin DOMAIN jobs =>
                jobs'[j].event = "forcetakeover" \/ ~jobs'[j].fobj.disabled]_vars

\* a disabled event was ignored on the configured master
C11_Witness ==
    \E p \in Procs :
        /\ ev[p].pc = "done"
        /\ ev[p].event \in {"MASTER", "BACKUP"}
        /\ ev[p].fobj.disabled
        /\ ev[p].fobj.master
        /\ ev[p].ignored = "disabled"
        /\ ev[p].job = 0


\* C12: the non-critical-interface check drops an event only when the
\* interface of the event is itself a member of the non-critical set of
\* the snapshot.
C12_OnlyMembersDropped ==
    \A p \in Procs :
        ev[p].ignored = "non_critical" => ev[p].ifname \in NonCritInterfaces


(* ------------------------------------------------------------------ *)
(* forcetakeover                                                       *)
(* ------------------------------------------------------------------ *)
\* C13: a forcetakeover event is never dropped by the disabled, the
\* non-critical-interface or the already-imported check; its job never calls
\* failover.vip.check_failover_group and is never IGNORED, its first two calls
\* are fenced.stop and fenced.start(True), and when fenced.start returned 0
\* and not every pool failed to import, the finished job is a SUCCESS.
C13_ForcedSkipsChecks ==
    /\ \A p \in Procs :
            ev[p].event = "forcetakeover" => ev[p].ignored \in {"no", "in_flight"}
    /\ \A j \in JobIds :
            jobs[j].event = "forcetakeover" =>
                /\ Count(jobs[j].calls, "failover.vip.check_failover_group") = 0
                /\ jobs[j].exc # "IgnoreFailoverEvent"
                /\ jobs[j].pc # "elect" =>
                        /\ Len(jobs[j].calls) >= 2
                        /\ jobs[j].calls[1] = Call("failover.fenced.stop")
                        /\ jobs[j].calls[2] = CallOn("failover.fenced.start", 1)
                /\ (/\ jobs[j].pc = "done"
                    /\ jobs[j].fenced_error = 0
                    /\ jobs[j].fobj.volumes # <<>>
                    /\ Len(jobs[j].failed) < Len(jobs[j].fobj.volumes))
                   => /\ jobs[j].state = "SUCCESS"
                      /\ jobs[j].result = "SUCCESS"
                      /\ jobs[j].progress = "SUCCESS"

\* a forcetakeover on a non-critical interface of a disabled node whose
\* pools were all ONLINE in the snapshot ended with SUCCESS
C13_Witness ==
    \E j \in JobIds :
        /\ jobs[j].event = "forcetakeover"
        /\ jobs[j].fobj.disabled
        /\ jobs[j].ifname \in NonCritInterfaces
        /\ jobs[j].fobj.volumes # <<>>
        /\ \A n \in DOMAIN jobs[j].fobj.volumes : jobs[j].fobj.volumes[n] = "ONLINE"
        /\ jobs[j].pc = "done"
        /\ jobs[j].fenced_error = 0
        /\ jobs[j].result = "SUCCESS"


(* ------------------------------------------------------------------ *)
(* Fencing is started once                                             *)
(* ------------------------------------------------------------------ *)
\* C14: a MASTER transition stops fenced at most once and starts it at most
\* once; a transition that went past the failover group check has called
\* fenced.stop exactly once and after it fenced.start exactly once; and a
\* non-forced transition whose fenced.start returned 2 ends in ERROR with
\* that single fenced.start.
C14_FencedStartedOnce ==
    \A j \in MasterJobs :
        LET calls == jobs[j].calls
            stops == {n \in 1..Len(calls) : calls[n].op = "failover.fenced.stop"}
            starts == {n \in 1..Len(calls) : calls[n].op = "failover.fenced.start"}
        IN /\ Cardinality(stops) <= 1
           /\ Cardinality(starts) <= 1
           /\ (jobs[j].pc # "elect" /\ jobs[j].exc # "IgnoreFailoverEvent") =>
                /\ Cardinality(stops) = 1
                /\ Cardinality(starts) = 1
                /\ \A a \in stops, b \in starts : a < b
           /\ (jobs[j].event = "MASTER" /\ jobs[j].fenced_error = 2) =>
                /\ jobs[j].state = "FAILED"
                /\ jobs[j].progress = "ERROR"
                /\ jobs[j].exc = "FencedError"
                /\ Cardinality(starts) = 1

\* a non-forced MASTER transition ended in ERROR because fenced.start
\* returned 2
C14_Witness ==
    \E j \in MasterJobs :
        /\ jobs[j].event = "MASTER"
        /\ jobs[j].fenced_error = 2
        /\ jobs[j].progress = "ERROR"
        /\ Count(jobs[j].calls, "failover.fenced.start") = 1


(* ------------------------------------------------------------------ *)
(* MASTER transition without zpools                                    *)
(* ------------------------------------------------------------------ *)
\* C15: a MASTER transition whose fenced.start returned 0 and whose snapshot
\* has no zpool is finished as soon as fenced is started: its result is INFO,
\* FAILOVER_RESULT is INFO, and it made no SED unlock, no cachefile setup, no
\* zpool import, no service restart and no firewall accept.
C15_NoVolumesInfo ==
    \A j \in MasterJobs :
        (/\ jobs[j].pc # "elect"
         /\ jobs[j].fenced_error = 0
         /\ jobs[j].fobj.volumes = <<>>)
        => /\ jobs[j].pc = "done"
           /\ jobs[j].state = "SUCCESS"
           /\ jobs[j].result = "INFO"
           /\ FAILOVER_RESULT = "INFO"
           /\ Ops(jobs[j].calls) \subseteq {"failover.fenced.stop", "failover.fenced.start"}
           /\ firewall = "drop"
           /\ cachefile = "none"

\* a transition without zpools returned INFO
C15_Witness ==
    \E j \in MasterJobs :
        /\ jobs[j].fobj.volumes = <<>>
        /\ jobs[j].fenced_error = 0
        /\ jobs[j].result = "INFO"
        /\ fenced


(* ------------------------------------------------------------------ *)
(* FAILOVER_RESULT                                                     *)
(* ------------------------------------------------------------------ *)
\* the job ends in this step and was not ignored
Terminates(j) ==
    /\ j \in DOMAIN jobs
    /\ jobs[j].state = "RUNNING"
    /\ jobs'[j].state \in {"SUCCESS", "FAILED"}
    /\ jobs'[j].exc # "IgnoreFailoverEvent"

\* C16: when a MASTER or BACKUP transition job terminates, FAILOVER_RESULT is
\* the terminal result of that job: ERROR for a job that ended in ERROR,
\* the returned SUCCESS or INFO otherwise.
C16_ResultRecorded ==
    [][\A j \in JobIds :
            Terminates(j) =>
                FAILOVER_RESULT' = IF jobs'[j].state = "FAILED" THEN "ERROR"
                                   ELSE jobs'[j].result]_vars

\* a SUCCESS of an earlier transition is in place while the latest job
\* ended in ERROR
C16_StaleSuccess ==
    \E j \in JobIds :
        /\ j = Len(jobs)
        /\ jobs[j].progress = "ERROR"
        /\ \A k \in JobIds : ~Running(k)
        /\ FAILOVER_RESULT = "SUCCESS"


(* ------------------------------------------------------------------ *)
(* Ignored events                                                      *)
(* ------------------------------------------------------------------ *)
\* what a transition acts on
Effects == <<pools, fenced, firewall, cachefile, sentinel, FAILOVER_RESULT, reboots>>

\* C17: a step that ignores an event changes no state. When the checks of
\* _event or validate ignore it, the zpools, fenced, the firewall, the
\* cachefile mode, the sentinel file, FAILOVER_RESULT and the jobs are as
\* before; when the failover group check of the job ignores it, the same
\* holds and the only call the job made is the group check.
C17_IgnoredChangesNothing ==
    [][/\ \A p \in Procs :
            (ev[p].ignored = "no" /\ ev'[p].ignored # "no")
            => /\ Effects' = Effects
               /\ jobs' = jobs
       /\ \A j \in JobIds :
            (jobs[j].exc # "IgnoreFailoverEvent" /\ jobs'[j].exc = "IgnoreFailoverEvent")
            => /\ Effects' = Effects
               /\ Ops(jobs'[j].calls) = {"failover.vip.check_failover_group"}
               /\ jobs'[j].result = jobs[j].result]_vars

\* one event was ignored by validate and the job of the other one by the
\* failover group check
C17_Witness ==
    /\ \E p \in Procs : ev[p].ignored = "in_flight"
    /\ \E j \in JobIds : jobs[j].exc = "IgnoreFailoverEvent"


(* ------------------------------------------------------------------ *)
(* Status refresh of event()                                           *)
(* ------------------------------------------------------------------ *)
\* the job that event() call p started was ignored by the failover group check
IgnoredByJob(p) ==
    \E j \in JobIds : j = ev[p].job /\ jobs[j].exc = "IgnoreFailoverEvent"

\* C18: when event() is over, it made no status refresh if the event was
\* ignored, by the checks of _event, by validate or by the failover group
\* check of its job, and exactly one status refresh otherwise.
C18_RefreshUnlessIgnored ==
    \A p \in Procs :
        ev[p].pc = "done" =>
            IF ev[p].ignored # "no" \/ IgnoredByJob(p)
            THEN ev[p].refreshes = 0
            ELSE ev[p].refreshes = 1

\* the part of the above that event() implements: the refresh is skipped
\* exactly for the events that _event or validate ignored
C18_RefreshUnlessIgnoredByChecks ==
    \A p \in Procs :
        ev[p].pc = "done" =>
            ev[p].refreshes = IF ev[p].ignored # "no" THEN 0 ELSE 1


(* ------------------------------------------------------------------ *)
(* Encryption keys                                                     *)
(* ------------------------------------------------------------------ *)
\* the call holds keys it read from the cache and has not yet written
\* back or pushed
MidOperation(i) == kops[i].pc \in {"put", "push_put"}

\* C19: update_encryption_keys and remove_encryption_keys are mutually
\* exclusive. Every cache.put writes the operation applied to the cache as
\* it is at that moment, so no write of another operation is lost; every
\* push leaves the peer unchanged or gives it the local cache as it is at
\* that moment; and while one call writes or pushes, no other call holds
\* keys it read earlier.
C19_KeyOperationsExclusive ==
    [][\A i \in KeyProcs :
        /\ (kops[i].pc = "put" /\ kops'[i].pc # "put")
           => /\ key_cache' = ModifyKeys(kops[i].kind, key_cache, kops[i].options)
              /\ \A o \in KeyProcs : o # i => ~MidOperation(o)
        /\ (kops[i].pc = "push_put" /\ kops'[i].pc # "push_put")
           => /\ peer_keys' \in {peer_keys, key_cache}
              /\ \A o \in KeyProcs : o # i => ~MidOperation(o)]_vars

\* an update and a remove with sync_keys ran at the same time on a licensed
\* MASTER, both pushed, and the peer has the keys of the local cache, of
\* which one is set
C19_Witness ==
    /\ licensed /\ status = "MASTER"
    /\ \E i, o \in KeyProcs :
        /\ kops[i].kind = "update" /\ kops[o].kind = "remove"
        /\ kops[i].options.sync_keys /\ kops[o].options.sync_keys
        /\ kops[i].pc = "done" /\ kops[o].pc = "done"
        /\ kops[i].exc = "none" /\ kops[o].exc = "none"
        /\ kops[i].overlapped \/ kops[o].overlapped
    /\ last_sync = "ok"
    /\ peer_keys = key_cache
    /\ key_cache # NoKeys


\* C20: on a licensed MASTER the FailoverKeysSyncFailed alert exists exactly
\* when the latest attempt of sync_keys_to_remote_node failed, an attempt
\* that could not contact the peer included.
C20_AlertTracksSyncHealth ==
    last_sync # "none" =>
        (("FailoverKeysSyncFailed" \in alerts) <=> (last_sync \in {"failed", "unreachable"}))

\* what the alert does track: after an attempt that could not contact the
\* peer the alert is as it was, so a push that failed is all that creates it
C20_AlertOnlyFromPush ==
    [][/\ ("FailoverKeysSyncFailed" \in alerts') # ("FailoverKeysSyncFailed" \in alerts)
          => last_sync' \in {"ok", "failed"}
       /\ (last_sync' = "unreachable" /\ last_sync # "unreachable")
          => alerts' = alerts /\ peer_keys' = peer_keys]_vars

\* the peer could not be contacted after a sync that succeeded: no alert
C20_UnreachableWithoutAlert ==
    /\ last_sync = "unreachable"
    /\ "FailoverKeysSyncFailed" \notin alerts
    /\ \E i \in KeyProcs : kops[i].pc = "done" /\ peer_keys = kops[i].keys
    /\ peer_keys # key_cache


\* C21: on a node that is not licensed or whose failover status is not
\* MASTER, sync_keys_to_remote_node returns at once: the peer is not pinged,
\* no call reaches the push, the keys of the peer and the alerts are never
\* changed.
C21_SyncSkipped ==
    (~licensed \/ status # "MASTER") =>
        /\ last_sync = "none"
        /\ peer_keys = NoKeys
        /\ alerts = {}
        /\ \A i \in KeyProcs :
            /\ kops[i].pc \notin {"push_read", "push_put"}
            /\ kops[i].kind = "sync" => kops[i].pc \in {"idle", "guards", "done"}

\* on a licensed BACKUP node an update with sync_keys and a direct sync
\* have both returned, with keys in the local cache
C21_Witness ==
    /\ licensed /\ status = "BACKUP"
    /\ key_cache # NoKeys
    /\ \E i, o \in KeyProcs :
        /\ kops[i].kind = "sync" /\ kops[i].pc = "done"
        /\ kops[o].kind = "update" /\ kops[o].options.sync_keys
        /\ kops[o].pc = "done" /\ kops[o].exc = "none"


(* ------------------------------------------------------------------ *)
(* failover.disabled.reasons                                           *)
(* ------------------------------------------------------------------ *)
\* C22: a call of failover.disabled.reasons sends the CHANGED event exactly
\* when the set it computed differs from the set the previous call computed,
\* the first call having no previous set; it sends at most one, and when
\* it returns LAST_DISABLED_REASONS is the set it computed.
C22_ChangedIffDifferent ==
    [][(rcall.pc = "compare" /\ rcall'.pc = "idle") =>
            /\ sent_events' \in {sent_events, sent_events + 1}
            /\ (sent_events' = sent_events + 1) <=> (rcall.prev # <<rcall.reasons>>)
            /\ LAST_DISABLED_REASONS' = <<rcall.reasons>>]_vars

\* the second call computed the same non-empty set as the first and sent
\* nothing
C22_Witness ==
    /\ rcall.pc = "idle"
    /\ rcall.n = 2
    /\ sent_events = 1
    /\ ~rcall.emitted
    /\ LAST_DISABLED_REASONS = rcall.prev
    /\ rcall.prev # <<{}>>


\* the peer could not be asked: not connected, or one of the calls raised
PeerUnreachable(p) == ~p.connected \/ p.raises_at # 0

PeerComparisonReasons == {"NO_SYSTEM_READY", "NO_LICENSE", "DISAGREE_VIP", "MISMATCH_DISKS"}

\* C23: when the peer cannot be asked, NO_PONG is the single reason that
\* comes from the peer: the set get_reasons returns has NO_PONG, and a set
\* with NO_PONG has none of NO_SYSTEM_READY, NO_LICENSE, DISAGREE_VIP and
\* MISMATCH_DISKS.
C23_NoPongAlone ==
    rcall.pc = "compare" =>
        /\ PeerUnreachable(rcall.peer) => "NO_PONG" \in rcall.reasons
        /\ "NO_PONG" \in rcall.reasons => rcall.reasons \cap PeerComparisonReasons = {}

\* what get_reasons does guarantee: NO_PONG exactly when the peer could not
\* be asked, alone among the peer reasons when the peer is not connected
C23_NoPongWhenUnreachable ==
    rcall.pc = "compare" =>
        /\ PeerUnreachable(rcall.peer) <=> "NO_PONG" \in rcall.reasons
        /\ ~rcall.peer.connected => rcall.reasons \cap PeerComparisonReasons = {}
        /\ "NO_PONG" \in rcall.reasons => "MISMATCH_DISKS" \notin rcall.reasons


InterfaceReasonNames == {"NO_CRITICAL_INTERFACES", "NO_VIP", "NO_FENCED"}

\* C24: the interface checks of get_reasons exclude one another. No set
\* has more than one of NO_CRITICAL_INTERFACES, NO_VIP and NO_FENCED, the
\* set that get_reasons returns included. Without a critical interface the
\* checks report NO_CRITICAL_INTERFACES and nothing else, the VIP, zpool and
\* fenced checks being skipped. NO_FENCED is reported exactly when a
\* critical interface exists, a virtual IP exists, an interface is MASTER,
\* more than one zpool is imported and fenced is not running.
C24_InterfaceChecksPrioritised ==
    /\ Cardinality(rcall.reasons \cap InterfaceReasonNames) <= 1
    /\ rcall.pc = "try" =>
        LET l == rcall.locals
        IN /\ ~l.crit_iface =>
                rcall.reasons \ {"NO_FAILOVER"} = {"NO_CRITICAL_INTERFACES"}
           /\ ("NO_FENCED" \in rcall.reasons) <=>
                (/\ l.crit_iface /\ l.vip /\ l.master
                 /\ l.num_of_zpools_imported > 1
                 /\ ~l.fenced_running)

\* no interface is critical, none has a virtual IP, one is MASTER with the
\* boot pool alone imported: the checks report NO_CRITICAL_INTERFACES alone
C24_Witness ==
    /\ rcall.pc = "try"
    /\ ~rcall.locals.crit_iface
    /\ ~rcall.locals.vip
    /\ rcall.locals.master
    /\ rcall.locals.num_of_zpools_imported = 1
    /\ rcall.reasons = {"NO_CRITICAL_INTERFACES"}


(* ------------------------------------------------------------------ *)
(* Order of the transitions                                            *)
(* ------------------------------------------------------------------ *)
\* the positions of the calls of op in a call list
At(calls, op) == {n \in 1..Len(calls) : calls[n].op = op}

\* every call of a comes before every call of b
Before(calls, a, b) == \A x \in At(calls, a), y \in At(calls, b) : x < y

\* the steps of a BACKUP transition up to the export, in the order claimed
DemoteOrder ==
    <<"failover.vip.check_failover_group", "failover.fenced.stop",
      "failover.firewall.drop_all", "service.restart.keepalived",
      "write.WATCHDOG_ALERT_FILE", "failover.zpool.cachefile.setup",
      "export_thread.start">>

BackgroundOps ==
    {"failover.events.restart_services", "disk.sync_all", "vm.start_on_boot",
     "alert.initialize", "kmip.initialize_keys"}

\* C26: a MASTER transition allows the network traffic only after its
\* fenced.start returned 0, a zpool was imported and the restart of the
\* critical services returned; the restart of the other services, the disk
\* sync, the VM start, the alert initialisation and the KMIP key resync all
\* come after the firewall accept. The firewall accepts traffic only when
\* such a transition made the call.
C26_AcceptAfterCritical ==
    /\ \A j \in MasterJobs :
        LET calls == jobs[j].calls
        IN /\ Cardinality(At(calls, "failover.firewall.accept_all")) <= 1
           /\ At(calls, "failover.firewall.accept_all") # {} =>
                /\ jobs[j].fenced_error = 0
                /\ Before(calls, "failover.fenced.start", "failover.firewall.accept_all")
                /\ Len(jobs[j].failed) < Len(jobs[j].fobj.volumes)
                /\ \E n \in At(calls, "failover.unlock_zfs_datasets") :
                        \A a \in At(calls, "failover.firewall.accept_all") : n < a
                /\ \E n \in At(calls, "failover.events.restart_services.critical") :
                        \A a \in At(calls, "failover.firewall.accept_all") : n < a
           /\ \A op \in BackgroundOps :
                /\ Before(calls, "failover.firewall.accept_all", op)
                /\ At(calls, op) # {} => At(calls, "failover.firewall.accept_all") # {}
    /\ firewall = "accept" =>
        \E j \in MasterJobs : At(jobs[j].calls, "failover.firewall.accept_all") # {}

\* a finished MASTER transition with one zpool imported and one failed
C26_Witness ==
    \E j \in MasterJobs :
        /\ jobs[j].pc = "done"
        /\ Len(jobs[j].failed) = 1
        /\ Len(jobs[j].fobj.volumes) = 2
        /\ At(jobs[j].calls, "kmip.initialize_keys") # {}
        /\ firewall = "accept"


\* C27: the progress label of a MASTER transition job goes from ELECTING
\* to IMPORTING to SUCCESS, ERROR or IGNORED: IMPORTING is set only after
\* fenced.start returned 0, and a job that has ended has one of the labels
\* SUCCESS, ERROR and IGNORED.
C27_ProgressLabels ==
    \A j \in MasterJobs :
        /\ jobs[j].progress \in {"none", "ELECTING", "IMPORTING", "SUCCESS", "ERROR", "IGNORED"}
        /\ jobs[j].progress \in {"IMPORTING", "SUCCESS"} => jobs[j].fenced_error = 0
        /\ jobs[j].state \in {"SUCCESS", "FAILED"} =>
                jobs[j].progress \in {"SUCCESS", "ERROR", "IGNORED"}

\* the labels of the jobs that do not return early: a job that ended
\* otherwise than by the return without zpools has a final label
C27_LabelsButEarlyReturn ==
    \A j \in MasterJobs :
        /\ jobs[j].progress \in {"IMPORTING", "SUCCESS"} => jobs[j].fenced_error = 0
        /\ jobs[j].state \in {"SUCCESS", "FAILED"} =>
                \/ jobs[j].progress \in {"SUCCESS", "ERROR", "IGNORED"}
                \/ jobs[j].result = "INFO" /\ jobs[j].progress = "ELECTING"

(* ------------------------------------------------------------------ *)
(* failover.update                                                     *)
(* ------------------------------------------------------------------ *)
\* a step is a failover.update call whose resulting record enables failover
\* while no interface is critical for failover
EnablesWithoutCritical ==
    /\ ucall'.n = ucall.n + 1
    /\ ucall'.op = "update"
    /\ ~ucall'.crit
    /\ (IF Provided(ucall'.data.disabled)
        THEN ucall'.data.disabled[1] ELSE datastore.disabled) = FALSE

UpdatedWithMaster ==
    /\ ucall'.n = ucall.n + 1
    /\ ucall'.op = "update"
    /\ ucall'.exc = "none"
    /\ Provided(ucall'.data.master)

\* C29: failover.update with `master` given stores this node's slot as
\* master_node when master is true and the other node's slot when it is
\* false, and the configuration it returns on the calling node has `master`
\* equal to the value passed.
C29_MasterAsPassed ==
    [][UpdatedWithMaster =>
          /\ datastore'.master_node = _master_node(node, ucall'.data.master[1])
          /\ ucall'.result[1].master = ucall'.data.master[1]]_vars

\* what holds instead: with `master` given, true or false, the slot of the
\* calling node is stored and the returned configuration has master = true
C29_CallerBecomesMaster ==
    [][UpdatedWithMaster =>
          /\ datastore'.master_node = node
          /\ ucall'.result[1].master = TRUE]_vars

(* ------------------------------------------------------------------ *)
(* Failover group check                                                *)
(* ------------------------------------------------------------------ *)
FencingOps == {"failover.fenced.stop", "failover.fenced.start"}

PoolOps == ImportOps \cup {"zfs.pool.export", "export_thread.start"}

\* C30: the failover group check comes before any fencing action in both
\* transitions. A MASTER job that is not forced and a BACKUP job make the
\* group check as their first call, ahead of every fenced.stop and
\* fenced.start; a job that raised IgnoreFailoverEvent is not a forced one,
\* has the progress description IGNORED and has called neither fenced.stop
\* nor fenced.start nor an import or export of a zpool.
C30_GroupCheckFirst ==
    \A j \in JobIds :
        /\ (jobs[j].calls # <<>> /\ jobs[j].event # "forcetakeover")
           => /\ jobs[j].calls[1].op = "failover.vip.check_failover_group"
              /\ \A op \in FencingOps :
                    Before(jobs[j].calls, "failover.vip.check_failover_group", op)
        /\ jobs[j].exc = "IgnoreFailoverEvent"
           => /\ jobs[j].event # "forcetakeover"
              /\ jobs[j].progress = "IGNORED"
              /\ jobs[j].state = "FAILED"
              /\ Ops(jobs[j].calls) \cap (FencingOps \cup PoolOps) = {}

\* a MASTER job and a BACKUP job have both been ignored by the group check,
\* and fenced was never touched
C30_Witness ==
    /\ \E j \in MasterJobs : jobs[j].exc = "IgnoreFailoverEvent"
    /\ \E j \in BackupJobs : jobs[j].exc = "IgnoreFailoverEvent"
    /\ \A j \in JobIds : Ops(jobs[j].calls) \cap FencingOps = {}

(* ------------------------------------------------------------------ *)
(* Import loop                                                         *)
(* ------------------------------------------------------------------ *)
\* the positions of the calls of op on zpool n
OnPool(calls, op, n) == {k \in 1..Len(calls) : calls[k].op = op /\ calls[k].arg = n}

InFailed(j, n) == \E k \in 1..Len(jobs[j].failed) : jobs[j].failed[k] = n

\* C31: for each zpool of a MASTER transition the import is tried at most
\* twice, first with the cachefile. The try without the cachefile is made
\* exactly when the first one failed as not found; the cachefile property is
\* rewritten exactly after a successful second try, and a failure of the
\* rewrite leaves the zpool imported and not failed; any other error of the
\* first try puts the zpool in `failed` with no second try.
C31_ImportRetry ==
    \A j \in MasterJobs : \A n \in 1..Len(jobs[j].fobj.volumes) :
        LET c == jobs[j].calls
            first == OnPool(c, "zfs.pool.import_pool", n)
            stale == OnPool(c, "logger.warning.stale_cachefile", n)
            second == OnPool(c, "zfs.pool.import_pool.nocachefile", n)
            rewrite == OnPool(c, "zfs.pool.update", n)
            rewrite_failed == OnPool(c, "logger.warning.cachefile_property", n)
            unlock == OnPool(c, "failover.unlock_zfs_datasets", n)
        IN /\ Cardinality(first) <= 1 /\ Cardinality(second) <= 1
           /\ Cardinality(rewrite) <= 1
           /\ (second # {}) <=> (stale # {})
           /\ \A x \in first, y \in second : x < y
           /\ (rewrite # {}) <=> (second # {} /\ ~InFailed(j, n))
           /\ \A x \in second, y \in rewrite : x < y
           /\ rewrite_failed # {}
              => /\ ~InFailed(j, n)
                 /\ unlock # {}
                 /\ pools[n] = "ONLINE"
           /\ (first # {} /\ stale = {} /\ InFailed(j, n))
              => second = {} /\ rewrite = {} /\ unlock = {}

\* the first zpool was imported without the cachefile and the rewrite of its
\* cachefile property failed, the second failed with another error, and the
\* transition was a SUCCESS
C31_Witness ==
    \E j \in MasterJobs :
        /\ jobs[j].state = "SUCCESS" /\ jobs[j].result = "SUCCESS"
        /\ OnPool(jobs[j].calls, "logger.warning.cachefile_property", 1) # {}
        /\ pools[1] = "ONLINE"
        /\ jobs[j].failed = <<2>>
        /\ OnPool(jobs[j].calls, "zfs.pool.import_pool.nocachefile", 2) = {}

\* the zpools of job j whose datasets failed to unlock, by a job error or by
\* a list of failed datasets
UnlockFailures(j) ==
    {n \in 1..Len(jobs[j].fobj.volumes) :
        OnPool(jobs[j].calls, "logger.error.unlock_job", n)
        \cup OnPool(jobs[j].calls, "logger.error.unlock_failed", n) # {}}

\* C32: the best-effort steps of the MASTER transition never abort it. After
\* a failure of the SED unlock is logged the job goes on to set up the
\* cachefile; a zpool whose dataset unlock had an error or left datasets
\* locked is not in `failed`; and a finished transition that imported every
\* zpool is a SUCCESS whatever the SED unlock and the dataset unlocks did.
C32_BestEffortNeverAborts ==
    \A j \in MasterJobs :
        LET c == jobs[j].calls
            vols == 1..Len(jobs[j].fobj.volumes)
        IN /\ \A k \in At(c, "logger.error.sed_unlock") :
                /\ k > 1 /\ c[k - 1].op = "disk.sed_unlock_all"
                /\ k < Len(c) /\ c[k + 1].op = "failover.zpool.cachefile.setup"
           /\ \A n \in vols :
                OnPool(c, "failover.unlock_zfs_datasets", n) # {} => ~InFailed(j, n)
           /\ \A n \in UnlockFailures(j) :
                /\ ~InFailed(j, n)
                /\ pools[n] = "ONLINE"
           /\ (/\ jobs[j].pc = "done"
               /\ vols # {}
               /\ \A n \in vols : OnPool(c, "failover.unlock_zfs_datasets", n) # {})
              => /\ jobs[j].state = "SUCCESS"
                 /\ jobs[j].result = "SUCCESS"
                 /\ jobs[j].progress = "SUCCESS"
                 /\ FAILOVER_RESULT = "SUCCESS"

\* the SED unlock failed, both zpools were imported, the dataset unlock of
\* each failed, one by a job error and one by failed datasets, and the
\* transition ended with SUCCESS
C32_Witness ==
    \E j \in MasterJobs :
        /\ jobs[j].result = "SUCCESS" /\ jobs[j].state = "SUCCESS"
        /\ At(jobs[j].calls, "logger.error.sed_unlock") # {}
        /\ OnPool(jobs[j].calls, "logger.error.unlock_job", 1) # {}
        /\ OnPool(jobs[j].calls, "logger.error.unlock_failed", 2) # {}
        /\ jobs[j].failed = <<>>

(* ------------------------------------------------------------------ *)
(* Watchdog sentinel file                                              *)
(* ------------------------------------------------------------------ *)
\* job j is between the write of the sentinel file and its removal
InExportWindow(j) == jobs[j].pc \in {"join", "rebooted", "standby"}

WriteSuppressed(j) == At(jobs[j].calls, "suppress.write.WATCHDOG_ALERT_FILE") # {}
UnlinkSuppressed(j) == At(jobs[j].calls, "suppress.unlink.WATCHDOG_ALERT_FILE") # {}

\* C33: the sentinel file marks the window in which the export deadline can
\* reboot the node. A BACKUP transition writes it before it starts the export
\* thread, and unless the write failed the file exists from then on, at the
\* reboot included, until the transition removes it; a transition that ends
\* without a reboot has removed it, unless the unlink failed, before its
\* status refresh and its result; a failed write or unlink is swallowed and
\* the transition goes on; and the file exists at no other time.
C33_SentinelMarksWindow ==
    /\ \A j \in BackupJobs :
        LET c == jobs[j].calls
        IN /\ Before(c, "write.WATCHDOG_ALERT_FILE", "export_thread.start")
           /\ Before(c, "export_thread.start", "unlink.WATCHDOG_ALERT_FILE")
           /\ Before(c, "unlink.WATCHDOG_ALERT_FILE", "failover.status_refresh")
           /\ InExportWindow(j)
              => /\ At(c, "write.WATCHDOG_ALERT_FILE") # {}
                 /\ At(c, "unlink.WATCHDOG_ALERT_FILE") = {}
                 /\ ~WriteSuppressed(j) => sentinel
           /\ jobs[j].pc = "rebooted" => reboots > 0
           /\ (jobs[j].pc = "done" /\ jobs[j].exc = "none")
              => /\ jobs[j].result = "SUCCESS" /\ FAILOVER_RESULT = "SUCCESS"
                 /\ At(c, "unlink.WATCHDOG_ALERT_FILE") # {}
                 /\ ~UnlinkSuppressed(j) => ~sentinel
           /\ \A k \in At(c, "suppress.write.WATCHDOG_ALERT_FILE") :
                k < Len(c) /\ c[k + 1].op = "failover.zpool.cachefile.setup"
           /\ \A k \in At(c, "suppress.unlink.WATCHDOG_ALERT_FILE") :
                k < Len(c) /\ c[k + 1].op = "failover.status_refresh"
    /\ reboots > 0 => \E j \in BackupJobs : jobs[j].pc = "rebooted"
    /\ sentinel => \E j \in BackupJobs :
                        \/ InExportWindow(j) /\ ~WriteSuppressed(j)
                        \/ jobs[j].pc = "done" /\ UnlinkSuppressed(j)

\* the export did not end by the deadline and the node was rebooted with the
\* sentinel file written by the transition in place
C33_Witness ==
    /\ reboots = 1
    /\ sentinel
    /\ \E j \in BackupJobs :
        /\ jobs[j].pc = "rebooted"
        /\ ~WriteSuppressed(j)
        /\ At(jobs[j].calls, "sysrq-trigger.b") # {}

(* ------------------------------------------------------------------ *)
(* restart_services                                                    *)
(* ------------------------------------------------------------------ *)
Range(seq) == {seq[i] : i \in 1..Len(seq)}

\* what the call with this `critical` is said to restart
PhaseServices(critical, dataset) ==
    IF critical THEN srv_enable \cap {"iscsitarget", "cifs", "nfs"}
    ELSE (srv_enable \ {"iscsitarget", "cifs", "nfs"})
         \cup (IF dataset THEN {"kubernetes"} ELSE {})

\* C34: restart_services with critical=true restarts exactly the enabled
\* services among iscsitarget, cifs and nfs, and with critical=false exactly
\* the other enabled services, plus kubernetes when it has a dataset; the two
\* phases are disjoint and together cover every enabled service. All restarts
\* of a call are started together, before any of them has ended, each one
\* ends on its own as restarted, timed out or failed, and when the call
\* returns it has raised nothing and logged exactly the services that timed
\* out.
C34_RestartPhases ==
    /\ rs.pc = "gather" \/ rs.n > 0
       => /\ Range(rs.to_restart) = PhaseServices(rs.critical, rs.dataset)
          /\ Cardinality(Range(rs.to_restart)) = Len(rs.to_restart)
          /\ DOMAIN rs.results = 1..Len(rs.to_restart)
          /\ \A i \in DOMAIN rs.results :
                rs.results[i] \in RestartOutcomes \cup {"running"}
    /\ (rs.pc = "idle" /\ rs.n > 0)
       => /\ \A i \in DOMAIN rs.results : rs.results[i] \in RestartOutcomes
          /\ rs.exc = "none"
          /\ rs.logged = {rs.to_restart[i] : i \in
                            {k \in DOMAIN rs.results : rs.results[k] = "timeout"}}
    /\ \A a, b \in 1..Len(rs.phases) :
            (rs.phases[a].critical /\ ~rs.phases[b].critical)
            => /\ Range(rs.phases[a].restarted) \cap Range(rs.phases[b].restarted) = {}
               /\ Range(rs.phases[a].restarted) \cup Range(rs.phases[b].restarted)
                    = srv_enable \cup (IF rs.phases[b].dataset
                                       THEN {"kubernetes"} ELSE {})

\* all restarts of a call are running when the call reaches the gather
C34_StartedTogether ==
    [][(rs.pc = "idle" /\ rs'.pc = "gather")
            => \A i \in DOMAIN rs'.results : rs'.results[i] = "running"]_vars

\* after the critical phase the other phase is in its gather: one of its
\* services has timed out, another has been restarted after that, and
\* kubernetes is still being restarted
C34_Witness ==
    /\ rs.pc = "gather" /\ ~rs.critical
    /\ Len(rs.phases) = 1 /\ rs.phases[1].critical
    /\ Len(rs.phases[1].restarted) = 3
    /\ rs.to_restart = <<"ssh", "snmp", "kubernetes">>
    /\ rs.results = <<"timeout", "ok", "running">>

(* ------------------------------------------------------------------ *)
(* MASTER event on a system without zpools                             *)
(* ------------------------------------------------------------------ *)
\* event() call p got a MASTER event on a critical interface while failover
\* is enabled and the system has no zpool
MasterWithoutPools(p) ==
    /\ ev[p].event = "MASTER"
    /\ ev[p].ifname = Name_ens2
    /\ ~ev[p].fobj.disabled
    /\ ev[p].fobj.volumes = <<>>
    /\ pools = <<>>

\* C35: a MASTER event on a critical interface, with failover enabled, no
\* transition running and no zpool on the system, is not ignored: it starts
\* the MASTER transition, which ends with the result INFO when fenced.start
\* returned 0.
C35_MasterWithoutPoolsReachesInfo ==
    \A p \in Procs :
        (MasterWithoutPools(p) /\ ev[p].pc = "done")
        => /\ ev[p].ignored = "no"
           /\ ev[p].job \in MasterJobs
           /\ (jobs[ev[p].job].pc = "done" /\ jobs[ev[p].job].fenced_error = 0)
              => jobs[ev[p].job].result = "INFO"

\* what the code does with such an event: _event ignores it as already
\* imported and no job is started
C35_MasterWithoutPoolsIgnored ==
    \A p \in Procs :
        (MasterWithoutPools(p) /\ ev[p].pc = "done")
        => /\ ev[p].ignored = "already_imported"
           /\ ev[p].job = 0
           /\ jobs = <<>>
           /\ FAILOVER_RESULT = "None"

(* ------------------------------------------------------------------ *)
(* Termination of the transitions                                      *)
(* ------------------------------------------------------------------ *)
\* how a MASTER job ends, and how a BACKUP job ends
MasterEnded(j) ==
    /\ jobs[j].method = "vrrp_master"
    /\ jobs[j].state \in {"SUCCESS", "FAILED"}
    /\ \/ jobs[j].progress \in {"SUCCESS", "ERROR", "IGNORED"}
       \/ jobs[j].result = "INFO"

BackupEnded(j) ==
    /\ jobs[j].method = "vrrp_backup"
    /\ \/ jobs[j].state = "SUCCESS" /\ jobs[j].result = "SUCCESS"
       \/ jobs[j].state = "FAILED" /\ jobs[j].progress = "IGNORED"
       \/ jobs[j].pc = "rebooted" /\ reboots > 0

\* the calling thread of a BACKUP job has not waited in join for longer than
\* the deadline
JoinBounded ==
    \A j \in BackupJobs :
        jobs[j].pc = "join" => jobs[j].elapsed <= ZPOOL_EXPORT_TIMEOUT

\* C36: every started transition job ends, when every call other than the
\* zpool export returns: a MASTER job ends with SUCCESS, ERROR, IGNORED or
\* the INFO return, a BACKUP job ends with SUCCESS or IGNORED or reboots the
\* node; the calling thread of the BACKUP job never waits in join beyond the
\* deadline, whatever the export thread does.
C36_JobsEnd ==
    /\ []JoinBounded
    /\ \A j \in 1..MaxEvents :
            (j \in JobIds) ~> (j \in JobIds /\ (MasterEnded(j) \/ BackupEnded(j)))

\* the node was rebooted at the deadline while the export thread had not
\* made a single export of the two it had to make
C36_Witness ==
    \E j \in BackupJobs :
        /\ jobs[j].pc = "rebooted"
        /\ jobs[j].thr = "running"
        /\ jobs[j].thr_idx = 1
        /\ Len(jobs[j].fobj.volumes) = 2
        /\ jobs[j].elapsed = ZPOOL_EXPORT_TIMEOUT
        /\ At(jobs[j].calls, "zfs.pool.export") = {}

(* ------------------------------------------------------------------ *)
(* ENCRYPTION_CACHE_LOCK                                               *)
(* ------------------------------------------------------------------ *)
\* where a call is while it holds the lock
HoldsLockAt(i) ==
    \/ kops[i].kind \in {"update", "remove"}
       /\ kops[i].pc \in {"read", "put", "guards", "push_read", "push_put"}
    \/ kops[i].kind = "sync" /\ kops[i].pc \in {"push_read", "push_put"}

\* the lock is held by the call that is inside its `async with` and by no
\* other; a call that waits for the lock does not hold it
LockConsistent ==
    /\ ENCRYPTION_CACHE_LOCK \in KeyProcs \cup {0}
    /\ \A i \in KeyProcs :
        /\ (ENCRYPTION_CACHE_LOCK = i) <=> HoldsLockAt(i)
        /\ kops[i].pc = "acquire" => ENCRYPTION_CACHE_LOCK # i

\* C37: ENCRYPTION_CACHE_LOCK never deadlocks. update_encryption_keys and
\* remove_encryption_keys keep the lock while they call
\* sync_keys_to_remote_node, which then does not take it again; the lock is
\* held exactly by the call that is inside its `async with`, so every way out
\* releases it, a push that raised included; and whatever the interleaving
\* of update, remove and sync_keys_to_remote_node calls, every call ends.
C37_LockNeverDeadlocks ==
    /\ []LockConsistent
    /\ \A i \in KeyProcs : (kops[i].pc # "idle") ~> (kops[i].pc = "done")

\* an update has ended with a push that raised, the lock is free again, and
\* a sync_keys_to_remote_node call that overlapped with it has ended too
C37_Witness ==
    /\ ENCRYPTION_CACHE_LOCK = 0
    /\ last_sync = "failed"
    /\ "FailoverKeysSyncFailed" \in alerts
    /\ \E i, k \in KeyProcs :
        /\ kops[i].kind = "update" /\ kops[i].pc = "done" /\ kops[i].options.sync_keys
        /\ kops[k].kind = "sync" /\ kops[k].pc = "done" /\ kops[k].overlapped
        /\ peer_keys # key_cache

(* ------------------------------------------------------------------ *)
(* The peer's copy of the encryption keys                              *)
(* ------------------------------------------------------------------ *)
\* call i is an update or a remove that was rejected for naming neither a
\* pool nor a dataset
RejectedEmpty(i) ==
    /\ kops[i].kind \in {"update", "remove"}
    /\ kops[i].options.pools = {} /\ kops[i].options.datasets = {}

\* call i is an update or a remove with sync_keys that has ended with a
\* push that succeeded
SyncedMutation(i) ==
    /\ kops[i].kind \in {"update", "remove"}
    /\ kops[i].options.sync_keys
    /\ kops[i].pc = "done"
    /\ kops[i].push = "ok"

\* C38: once update_encryption_keys and remove_encryption_keys calls with
\* sync_keys, interleaved in any way, have all ended with a successful push,
\* the failover_encryption_keys entry of the peer equals the local one; a
\* call with neither pools nor datasets raises CallError, touches neither
\* entry and pushes nothing.
C38_PeerCacheEqualsLocal ==
    /\ (\A i \in KeyProcs : SyncedMutation(i) \/ (RejectedEmpty(i) /\ kops[i].pc = "done"))
       => peer_keys = key_cache
    /\ \A i \in KeyProcs :
        RejectedEmpty(i) => /\ kops[i].pc = "done"
                            /\ kops[i].exc = "CallError"
                            /\ kops[i].push = "none"
    /\ (\A i \in KeyProcs : RejectedEmpty(i))
       => key_cache = NoKeys /\ peer_keys = NoKeys

\* an update and a remove that overlapped have both ended with a successful
\* push, the local entry holds a key, and the peer has the same entry
C38_Witness ==
    /\ \E i, k \in KeyProcs :
        /\ kops[i].kind = "update" /\ SyncedMutation(i)
        /\ kops[k].kind = "remove" /\ SyncedMutation(k)
        /\ kops[k].overlapped
    /\ key_cache # NoKeys
    /\ peer_keys = key_cache

(* ------------------------------------------------------------------ *)
(* Enabling failover                                                   *)
(* ------------------------------------------------------------------ *)
\* a step is a call that wrote the row with disabled = false
WroteEnabled ==
    /\ ucall'.n = ucall.n + 1
    /\ ucall'.wrote
    /\ ~datastore'.disabled

\* C39: no operation enables failover without a critical interface. Every
\* call of failover.update or of failover.control that writes the row with
\* disabled = false was made while an interface was critical for failover.
C39_EnabledOnlyWithCritical ==
    [][WroteEnabled => ucall'.crit]_vars

\* what holds: failover.update writes disabled = false only with a critical
\* interface; failover.control with ENABLE writes it whenever the row was
\* disabled and the node has a slot, critical interface or not
C39_OnlyUpdateChecks ==
    [][/\ (WroteEnabled /\ ucall'.op = "update") => ucall'.crit
       /\ (/\ ucall'.n = ucall.n + 1
           /\ ucall'.op = "control" /\ ucall'.action = "ENABLE"
           /\ datastore.disabled /\ node # "MANUAL")
          => (ucall'.wrote /\ ~datastore'.disabled /\ ucall'.exc = "none")]_vars

(* ------------------------------------------------------------------ *)
(* sync_to_peer                                                        *)
(* ------------------------------------------------------------------ *)
\* the calls made so far are the first steps, in their order
InStepOrder == sp.calls = SubSeq(SyncSteps, 1, Len(sp.calls))

PeerSyncOver == sp.pc > Len(SyncSteps)

RebootRequested == \E n \in 1..Len(sp.calls) : sp.calls[n] = "call_remote.system.reboot"

\* the method stops where a step raised, and runs to its end otherwise
StopsWhereRaised ==
    /\ sp.exc = "raised" => PeerSyncOver
    /\ (PeerSyncOver /\ sp.exc = "none")
       => Len(sp.calls) = (IF sp.reboot THEN Len(SyncSteps) ELSE Len(SyncSteps) - 1)

\* the reboot of the peer is asked for only with reboot = true and after all
\* the other steps were made
RebootLast ==
    /\ RebootRequested => sp.reboot /\ Len(sp.calls) = Len(SyncSteps)
    /\ ~sp.reboot => ~RebootRequested

====
